---------------------------- MODULE Spec2Model ----------------------------
(***************************************************************************)
(* A model of the token scoring engine: TotalScorer.score_token and the    *)
(* three analyzers it drives (UniqueEOAAnalyzer, HolderAnalyzer,           *)
(* ContractPermissionAnalyzer), with the chain RPC, the fast provider and  *)
(* the SimpleDB caches as the environment.                                 *)
(*                                                                         *)
(* Numbers.  Scores and percentages are Python floats rounded to two       *)
(* decimals; here they are integers counting hundredths (score 3.0 is 300, *)
(* 55.5 % is 5550).  The unrounded holder score is kept in units of 1/3000 *)
(* so that the slopes 0.5, 10/30 and 7/30 stay exact.                      *)
(***************************************************************************)
EXTENDS Integers, Sequences, FiniteSets, TLC

(***************************************************************************)
(* Bounds of the model.                                                    *)
(***************************************************************************)
\* The largest top-10 percentage (in hundredths) fed to the holder score.
MaxTop10 == 10000
\* The largest balance of the single holder of scenario A.
MaxBalance == 3

(***************************************************************************)
(* Arithmetic helpers.                                                     *)
(***************************************************************************)
Max(a, b) == IF a >= b THEN a ELSE b

Min(a, b) == IF a <= b THEN a ELSE b

\* The integer nearest to n / d (d # 0), ties to the even neighbour, as
\* Python's round() does on an exactly representable tie.
RoundDiv(n, d) ==
    LET nn == IF d < 0 THEN -n ELSE n
        dd == IF d < 0 THEN -d ELSE d
        q  == nn \div dd
        r  == nn % dd
    IN  IF 2 * r < dd THEN q
        ELSE IF 2 * r > dd THEN q + 1
        ELSE IF q % 2 = 0 THEN q ELSE q + 1

(***************************************************************************)
(* HolderAnalyzer: the score and the risk level of a top-10 percentage.    *)
(* p is in hundredths of a percent; the score is in units of 1/3000.       *)
(***************************************************************************)
\* The floor of the last segment: max(3.0, score).
HolderMinScore == 3

HolderCalculateScoreSteep(p) ==
    IF p <= 2000 THEN 3000 * 30
    ELSE IF p <= 4000 THEN 3000 * 30 - (p - 2000) * 15
    ELSE IF p <= 7000 THEN 3000 * 20 - (p - 4000) * 10
    ELSE Max(3000 * HolderMinScore, 3000 * 10 - (p - 7000) * 8)

HolderCalculateScore(p) ==
    IF p <= 2000 THEN 3000 * 30
    ELSE IF p <= 4000 THEN 3000 * 30 - (p - 2000) * 15
    ELSE IF p <= 7000 THEN 3000 * 20 - (p - 4000) * 10
    ELSE Max(3000 * HolderMinScore, 3000 * 10 - (p - 7000) * 7)

HolderDetermineRiskLevel(p) ==
    IF p <= 2000 THEN "low_risk"
    ELSE IF p <= 4000 THEN "medium_risk"
    ELSE IF p <= 6000 THEN "high_risk"
    ELSE "extreme_risk"

\* round(score, 2) of an unrounded holder score, in hundredths.
HolderRound(s) == RoundDiv(s, 30)

(***************************************************************************)
(* Addresses.  ZERO is the zero address (mint / burn); Contracts are the   *)
(* addresses with deployed bytecode, all others are EOAs.                  *)
(***************************************************************************)
ZERO == "0x0"

Addr == {ZERO, "a", "b", "k"}

Contracts == {"k"}

\* Optional[int] = None (total_scorer.py: from_block / to_block default).
NoneBlock == -1

\* Web3Client.is_contract: the bytecode at the address is not empty.
IsContract(a) == a \in Contracts

(***************************************************************************)
(* UniqueEOAAnalyzer._calculate_score.  normalized = count / hours is kept *)
(* as the pair (count, hours); hours # 0 here (hours = 0 raises            *)
(* ZeroDivisionError, see EoaScoreRaises).  The score is in hundredths.    *)
(***************************************************************************)
EoaMaxScore == 40

\* normalized >= k, for count / hours with hours # 0.
NormalizedGe(count, hours, k) ==
    IF hours > 0 THEN count >= k * hours ELSE count <= k * hours

\* A scoring that keeps the middle segment at its lower end.
EoaCalculateScoreFlat(count, hours) ==
    IF NormalizedGe(count, hours, 300)
    THEN [score |-> 100 * EoaMaxScore, risk |-> "low_risk"]
    ELSE IF NormalizedGe(count, hours, 50)
    THEN [score |-> 2000, risk |-> "medium_risk"]
    ELSE [score |-> RoundDiv(40 * count, hours), risk |-> "high_risk"]

EoaCalculateScore(count, hours) ==
    IF NormalizedGe(count, hours, 300)
    THEN [score |-> 100 * EoaMaxScore, risk |-> "low_risk"]
    ELSE IF NormalizedGe(count, hours, 50)
    THEN [score |-> RoundDiv(1600 * hours + 8 * count, hours),
          risk  |-> "medium_risk"]
    ELSE [score |-> RoundDiv(40 * count, hours), risk |-> "high_risk"]

\* unique_eoa_count / time_window_hours with time_window_hours = 0.
EoaScoreRaises(hours) == hours = 0

(***************************************************************************)
(* The result dictionaries of the EOA analyzer, as records with one field  *)
(* set: score (hundredths), risk, src (data_source), count                 *)
(* (unique_eoa_count), total (total_addresses), pct (eoa_percentage,       *)
(* hundredths), events (events_count), err (an "error" key is present),    *)
(* all / eoas (the address sets the deep path builds).                     *)
(***************************************************************************)
EoaRec(score, risk, src, count, total, pct, events, err, all, eoas) ==
    [score |-> score, risk |-> risk, src |-> src, count |-> count,
     total |-> total, pct |-> pct, events |-> events, err |-> err,
     all |-> all, eoas |-> eoas]

\* No result yet.
EoaNone == EoaRec(0, "none", "none", 0, 0, 0, 0, FALSE, {}, {})

\* TotalScorer._analyze_eoa, the except branch.
EoaErrorResult == EoaRec(0, "unknown", "error", 0, 0, 0, 0, TRUE, {}, {})

\* A zero-record result in the manner of the holder analyzer, which calls
\* the empty case "unknown" and notes an error.
EoaEmptyUnknown(src) == EoaRec(0, "unknown", src, 0, 0, 0, 0, TRUE, {}, {})

\* "No holders found" (fast) and "No transfer events found" (deep).
EoaEmptyResult(src) == EoaRec(0, "high_risk", src, 0, 0, 0, 0, FALSE, {}, {})

(***************************************************************************)
(* ContractReader.get_transfer_events over [from, to]: the Transfer events *)
(* of the range, in log order.  A failing eth_getLogs batch is swallowed   *)
(* by the reader and its events are missing; logsOk = FALSE is the case in *)
(* which the batches fail.                                                 *)
(***************************************************************************)
GetTransferEvents(events, from, to, logsOk) ==
    IF logsOk
    THEN SelectSeq(events, LAMBDA e : from <= e.blk /\ e.blk <= to)
    ELSE << >>

\* The addresses an event list mentions.
EventAddresses(evs) ==
    {evs[i].from : i \in 1..Len(evs)} \cup {evs[i].to : i \in 1..Len(evs)}

(***************************************************************************)
(* UniqueEOAAnalyzer.is_eoa over a set of addresses: a cached address      *)
(* answers from the cache (the cached value is what the chain said, and    *)
(* bytecode presence does not change), any other needs eth_getCode.        *)
(***************************************************************************)
IsEoa(a) == ~IsContract(a)

NeedsCodeRead(addrs, cache) == addrs \ cache # {}

(***************************************************************************)
(* UniqueEOAAnalyzer.analyze_transfer_events.  valid: the token address is *)
(* well formed (ContractReader's to_checksum_address raises otherwise);    *)
(* to = NoneBlock reads the latest block.  The outcome is a record         *)
(* [raised, res, cache]; res is EoaNone when the call raised.  A failing   *)
(* eth_getCode raises at the first address not cached, before any new      *)
(* address is cached.  records is the number of Transfer events fetched,   *)
(* NoRecords when the call raised before fetching.                         *)
(***************************************************************************)
NoRecords == -1

AnalyzeTransferEvents(ch, cache, valid, from, to, hours, env) ==
    LET toB  == IF to = NoneBlock THEN ch.latest ELSE to
        evs  == GetTransferEvents(ch.events, from, toB, env.logsOk)
        all  == EventAddresses(evs)
        eoas == {a \in all : IsEoa(a)}
        cnt  == Cardinality(eoas)
        sc   == EoaCalculateScore(cnt, hours)
        fail == [raised |-> TRUE, res |-> EoaNone, cache |-> cache,
                 records |-> NoRecords]
    IN  IF ~valid THEN fail
        ELSE IF to = NoneBlock /\ ~env.blockOk THEN fail
        ELSE IF Len(evs) = 0
        THEN [raised |-> FALSE, res |-> EoaEmptyResult("blockpi"),
              cache |-> cache, records |-> 0]
        ELSE IF NeedsCodeRead(all, cache) /\ ~env.codeOk
        THEN [fail EXCEPT !.records = Len(evs)]
        ELSE IF EoaScoreRaises(hours)
        THEN [raised |-> TRUE, res |-> EoaNone, cache |-> cache \cup all,
              records |-> Len(evs)]
        ELSE [raised |-> FALSE,
              res |-> EoaRec(sc.score, sc.risk, "blockpi", cnt,
                             Cardinality(all),
                             RoundDiv(cnt * 10000, Cardinality(all)),
                             Len(evs), FALSE, all, eoas),
              cache |-> cache \cup all, records |-> Len(evs)]

(***************************************************************************)
(* The fast provider client (NansenClient).  One call makes up to          *)
(* MaxAttempts attempts; outs[i] is what attempt i meets: "ok", "app" (a   *)
(* structured failure code), "rate" (rate limit) or "net" (network).  A    *)
(* rate-limited or failed attempt is followed by another while attempts    *)
(* remain; "ok" and "app" end the call.  The call's outcome is             *)
(* [final, attempts].                                                      *)
(***************************************************************************)
MaxAttempts == 4

AttemptOutcomes == {"ok", "app", "rate", "net"}

Retryable(o) == o \in {"rate", "net"}

NansenRequest(outs) ==
    LET ends == {i \in 1..MaxAttempts : ~Retryable(outs[i])}
        last == IF ends = {} THEN MaxAttempts
                ELSE CHOOSE i \in ends : \A j \in ends : i <= j
    IN  [final |-> outs[last], attempts |-> last]

\* The errors the analyzers catch as NansenError and answer by falling back
\* to deep mode: the application error.  A rate limit or a network failure
\* that outlives the retries is not one of them.
IsNansenError(final) == final = "app"

(***************************************************************************)
(* UniqueEOAAnalyzer._analyze_fast.  call is the outcome of                *)
(* nansen.count_unique_eoa, stats = [holders, count] its data when "ok".   *)
(* The outcome is [raised, res, cache, range]: range is the block range of *)
(* the deep scan the call fell back to, or <<NoneBlock, NoneBlock>>;       *)
(* records is holders_analyzed, or the events of the fallback scan.        *)
(***************************************************************************)
EoaFallbackBlocks == 10000

\* max(0, current_block - n): the first block of a fallback scan.
FallbackFromUnclamped(latest, n) == latest - n

FallbackFrom(latest, n) == Max(0, latest - n)

NoRange == <<NoneBlock, NoneBlock>>

EoaAnalyzeFast(ch, cache, valid, hours, call, stats, env) ==
    LET sc   == EoaCalculateScore(stats.count, hours)
        from == FallbackFrom(ch.latest, EoaFallbackBlocks)
        deep == AnalyzeTransferEvents(ch, cache, valid, from, ch.latest,
                                      hours, env)
        fail == [raised |-> TRUE, res |-> EoaNone, cache |-> cache,
                 range |-> NoRange, records |-> NoRecords]
    IN  IF call.final = "ok"
        THEN IF stats.holders = 0
             THEN [raised |-> FALSE, res |-> EoaEmptyResult("nansen"),
                   cache |-> cache, range |-> NoRange, records |-> 0]
             ELSE IF EoaScoreRaises(hours)
             THEN [fail EXCEPT !.records = stats.holders]
             ELSE [raised |-> FALSE,
                   res |-> EoaRec(sc.score, sc.risk, "nansen", stats.count,
                                  stats.holders,
                                  RoundDiv(stats.count * 10000, stats.holders),
                                  0, FALSE, {}, {}),
                   cache |-> cache, range |-> NoRange,
                   records |-> stats.holders]
        ELSE IF IsNansenError(call.final)
        THEN IF ~env.blockOk THEN fail
             ELSE [raised |-> deep.raised, res |-> deep.res,
                   cache |-> deep.cache, range |-> <<from, ch.latest>>,
                   records |-> deep.records]
        ELSE fail

(***************************************************************************)
(* UniqueEOAAnalyzer.analyze: fast needs the fast client, every other mode *)
(* is the deep scan over the caller's range.                               *)
(***************************************************************************)
EoaAnalyze(ch, cache, hasNansen, valid, m, from, to, hours, call, stats, env) ==
    LET mm   == IF m = "auto" THEN (IF hasNansen THEN "fast" ELSE "deep")
                ELSE m
        deep == AnalyzeTransferEvents(ch, cache, valid, from, to, hours, env)
    IN  IF mm = "fast"
        THEN IF ~hasNansen
             THEN [raised |-> TRUE, res |-> EoaNone, cache |-> cache,
                   range |-> NoRange, records |-> NoRecords]
             ELSE EoaAnalyzeFast(ch, cache, valid, hours, call, stats, env)
        ELSE [raised |-> deep.raised, res |-> deep.res, cache |-> deep.cache,
              range |-> <<from, to>>, records |-> deep.records]

\* from_block or 0.
OrZero(b) == IF b = NoneBlock THEN 0 ELSE b

(***************************************************************************)
(* TotalScorer._analyze_eoa: whatever the analyzer raises becomes the      *)
(* zero-score "unknown" result of the dimension.                           *)
(***************************************************************************)
TotalAnalyzeEoaUnmarked(out) ==
    IF out.raised THEN EoaEmptyResult("nansen") ELSE out.res

TotalAnalyzeEoa(out) == IF out.raised THEN EoaErrorResult ELSE out.res

(***************************************************************************)
(* The result dictionaries of the holder analyzer: score (hundredths),     *)
(* risk, src (data_source), top10 (top10_percentage, hundredths), total    *)
(* (total_holders; NotCounted for "N/A (Top10 only)"), err (an "error" key *)
(* is present), set (the holder addresses of the deep scan).               *)
(***************************************************************************)
NotCounted == -1

HolderRec(score, risk, src, top10, total, err, set) ==
    [score |-> score, risk |-> risk, src |-> src, top10 |-> top10,
     total |-> total, err |-> err, set |-> set]

HolderNone == HolderRec(0, "none", "none", 0, 0, FALSE, {})

\* TotalScorer._analyze_holders, the except branch.
HolderErrorResult == HolderRec(0, "unknown", "error", 0, 0, TRUE, {})

\* A zero-holder result in the manner of the activity analyzer, which calls
\* the empty case "high_risk" and notes no error.
HolderEmptyHighRisk(src) == HolderRec(0, "high_risk", src, 0, 0, FALSE, {})

\* "No holders found".
HolderEmptyResult(src) == HolderRec(0, "unknown", src, 0, 0, TRUE, {})

\* The scored result for an unrounded top10_percentage p (hundredths).
HolderScored(p, src, total, set) ==
    HolderRec(HolderRound(HolderCalculateScore(p)),
              HolderDetermineRiskLevel(p), src, p, total, FALSE, set)

(***************************************************************************)
(* ContractReader.get_total_supply_human, as the fraction num / den of     *)
(* whole tokens.  The chain holds ch.supply whole tokens with ch.decimals  *)
(* decimals (ch.decimals <= DefaultDecimals); a failing totalSupply() call *)
(* reads as 0 and a failing decimals() call as DefaultDecimals.            *)
(***************************************************************************)
DefaultDecimals == 18

RECURSIVE Pow10(_)
Pow10(n) == IF n = 0 THEN 1 ELSE 10 * Pow10(n - 1)

GetDecimals(ch, env) == IF env.decimalsOk THEN ch.decimals ELSE DefaultDecimals

GetTotalSupply(ch, env) == IF env.supplyOk THEN ch.supply ELSE 0

GetTotalSupplyHuman(ch, env) ==
    [num |-> GetTotalSupply(ch, env),
     den |-> Pow10(GetDecimals(ch, env) - ch.decimals)]

(***************************************************************************)
(* The percentages of a provider holder list hs, a sequence of             *)
(* [addr, bal, pct] with pct in hundredths and UnknownPct the provider's   *)
(* "not given" mark.  _analyze_fast recomputes them from the total supply  *)
(* when the first one is negative: bal / total_supply * 100, or 0 when the *)
(* supply is 0 or the reader cannot be built.                              *)
(***************************************************************************)
UnknownPct == -100

Recomputed(hs, ch, valid, env) ==
    LET sup == GetTotalSupplyHuman(ch, env)
    IN  [i \in 1..Len(hs) |->
            IF valid /\ sup.num > 0
            THEN [hs[i] EXCEPT !.pct = RoundDiv(hs[i].bal * sup.den * 10000,
                                                sup.num)]
            ELSE [hs[i] EXCEPT !.pct = 0]]

Percentages(hs, ch, valid, env) ==
    IF Len(hs) > 0 /\ hs[1].pct < 0 THEN Recomputed(hs, ch, valid, env)
    ELSE hs

TopN == 10

RECURSIVE SumPct(_, _)
SumPct(hs, n) ==
    IF n = 0 \/ Len(hs) = 0 THEN 0 ELSE hs[1].pct + SumPct(Tail(hs), n - 1)

(***************************************************************************)
(* HolderAnalyzer.get_all_holders.  hcache is the cache entry              *)
(* "holders_<token>" as [has, dict]; an entry with an empty dict is not    *)
(* used.  The outcome is [raised, dict, hcache].  The zero address is left *)
(* out of the address set; a failing balanceOf reads as 0.                 *)
(***************************************************************************)
NoHolders == [has |-> FALSE, dict |-> << >>]

GetBalance(ch, a, env) == IF env.balanceOk THEN ch.bal[a] ELSE 0

GetAllHolders(ch, hcache, valid, from, to, env) ==
    LET toB   == IF to = NoneBlock THEN ch.latest ELSE to
        evs   == GetTransferEvents(ch.events, from, toB, env.logsOk)
        addrs == EventAddresses(evs) \ {ZERO}
        hold  == {a \in addrs : GetBalance(ch, a, env) > 0}
        dict  == [a \in hold |-> GetBalance(ch, a, env)]
        fail  == [raised |-> TRUE, dict |-> << >>, hcache |-> hcache]
    IN  IF hcache.has /\ DOMAIN hcache.dict # {}
        THEN [raised |-> FALSE, dict |-> hcache.dict, hcache |-> hcache]
        ELSE IF ~valid THEN fail
        ELSE IF to = NoneBlock /\ ~env.latestOk THEN fail
        ELSE [raised |-> FALSE, dict |-> dict,
              hcache |-> [has |-> TRUE, dict |-> dict]]

RECURSIVE SumTop(_, _, _)
SumTop(d, S, n) ==
    IF n = 0 \/ S = {} THEN 0
    ELSE LET m == CHOOSE a \in S : \A b \in S : d[a] >= d[b]
         IN  d[m] + SumTop(d, S \ {m}, n - 1)

(***************************************************************************)
(* HolderAnalyzer.analyze_holder_concentration: the supply is the sum of   *)
(* the holders' balances, the top 10 are the 10 largest.                   *)
(***************************************************************************)
AnalyzeHolderConcentration(ch, hcache, valid, from, to, env) ==
    LET g     == GetAllHolders(ch, hcache, valid, from, to, env)
        hs    == DOMAIN g.dict
        total == SumTop(g.dict, hs, Cardinality(hs))
        top   == SumTop(g.dict, hs, TopN)
        p     == IF total > 0 THEN RoundDiv(top * 10000, total) ELSE 0
    IN  IF g.raised
        THEN [raised |-> TRUE, res |-> HolderNone, hcache |-> g.hcache]
        ELSE IF hs = {}
        THEN [raised |-> FALSE, res |-> HolderEmptyResult("blockpi"),
              hcache |-> g.hcache]
        ELSE [raised |-> FALSE,
              res |-> HolderScored(p, "blockpi", Cardinality(hs), hs),
              hcache |-> g.hcache]

(***************************************************************************)
(* HolderAnalyzer._analyze_fast.  call is the outcome of                   *)
(* nansen.get_token_holders, hs its holder list when "ok".  The outcome is *)
(* [raised, res, hcache, range, pcts]; pcts are the percentages summed.    *)
(***************************************************************************)
HolderFallbackBlocks == 50000

HolderAnalyzeFast(ch, hcache, valid, call, hs, env) ==
    LET ps   == Percentages(hs, ch, valid, env)
        p    == SumPct(ps, TopN)
        from == FallbackFrom(ch.latest, HolderFallbackBlocks)
        deep == AnalyzeHolderConcentration(ch, hcache, valid, from, ch.latest,
                                           env)
        fail == [raised |-> TRUE, res |-> HolderNone, hcache |-> hcache,
                 range |-> NoRange, pcts |-> << >>]
    IN  IF call.final = "ok"
        THEN IF Len(hs) = 0
             THEN [raised |-> FALSE, res |-> HolderEmptyResult("nansen"),
                   hcache |-> hcache, range |-> NoRange, pcts |-> << >>]
             ELSE [raised |-> FALSE,
                   res |-> HolderScored(p, "nansen", NotCounted, {}),
                   hcache |-> hcache, range |-> NoRange, pcts |-> ps]
        ELSE IF IsNansenError(call.final)
        THEN IF ~env.latestOk THEN fail
             ELSE [raised |-> deep.raised, res |-> deep.res,
                   hcache |-> deep.hcache, range |-> <<from, ch.latest>>,
                   pcts |-> << >>]
        ELSE fail

\* HolderAnalyzer.analyze.
HolderAnalyze(ch, hcache, hasNansen, valid, m, from, to, call, hs, env) ==
    LET mm   == IF m = "auto" THEN (IF hasNansen THEN "fast" ELSE "deep")
                ELSE m
        deep == AnalyzeHolderConcentration(ch, hcache, valid, from, to, env)
    IN  IF mm = "fast"
        THEN IF ~hasNansen
             THEN [raised |-> TRUE, res |-> HolderNone, hcache |-> hcache,
                   range |-> NoRange, pcts |-> << >>]
             ELSE HolderAnalyzeFast(ch, hcache, valid, call, hs, env)
        ELSE [raised |-> deep.raised, res |-> deep.res,
              hcache |-> deep.hcache, range |-> <<from, to>>,
              pcts |-> << >>]

\* TotalScorer._analyze_holders.
TotalAnalyzeHolders(out) == IF out.raised THEN HolderErrorResult ELSE out.res

(***************************************************************************)
(* The permission analyzer.  The chain says of the token: ch.owner, what   *)
(* owner() answers ("nofn": no such function, or an address), ch.danger,   *)
(* the number of dangerous selectors in its bytecode, ch.impl / ch.admin,  *)
(* whether the EIP-1967 implementation slot is set and the address in the  *)
(* admin slot (NoAddr: the slot is zero).                                  *)
(***************************************************************************)
NoAddr == "None"

OwnerInfo(has, owner, renounced, multisig) ==
    [has_owner |-> has, owner_address |-> owner, is_renounced |-> renounced,
     is_multisig |-> multisig]

NoOwnerCached == [has |-> FALSE, info |-> OwnerInfo(FALSE, NoAddr, FALSE, FALSE)]

\* check_owner without the cache: every failure inside the try leaves
\* has_owner = False, the fields already written stay.
ReadOwner(ch, env) ==
    IF ~env.ownerOk \/ ch.owner = "nofn"
    THEN OwnerInfo(FALSE, NoAddr, FALSE, FALSE)
    ELSE IF ch.owner = ZERO THEN OwnerInfo(TRUE, ZERO, TRUE, FALSE)
    ELSE IF ~env.ownerCodeOk THEN OwnerInfo(FALSE, ch.owner, FALSE, FALSE)
    ELSE OwnerInfo(TRUE, ch.owner, FALSE, IsContract(ch.owner))

\* A check_owner that stores only a result with an owner.
CheckOwnerSkipFailed(ch, ocache, env) ==
    IF ocache.has THEN [info |-> ocache.info, ocache |-> ocache]
    ELSE [info |-> ReadOwner(ch, env),
          ocache |-> IF ReadOwner(ch, env).has_owner
                     THEN [has |-> TRUE, info |-> ReadOwner(ch, env)]
                     ELSE ocache]

\* check_owner: [info, ocache].
CheckOwner(ch, ocache, env) ==
    IF ocache.has THEN [info |-> ocache.info, ocache |-> ocache]
    ELSE [info |-> ReadOwner(ch, env),
          ocache |-> [has |-> TRUE, info |-> ReadOwner(ch, env)]]

\* check_dangerous_functions: the number of detected functions.
CheckDangerousFunctions(ch) == ch.danger

\* check_proxy_pattern; env.storage is "ok", "fail1" (the first slot read
\* fails) or "fail2" (the second one does).
CheckProxyPattern(ch, env) ==
    IF env.storage = "fail1" THEN [is_proxy |-> FALSE, admin |-> NoAddr]
    ELSE IF env.storage = "fail2" THEN [is_proxy |-> ch.impl, admin |-> NoAddr]
    ELSE [is_proxy |-> ch.impl, admin |-> ch.admin]

(***************************************************************************)
(* _calculate_risk_score, in points.                                       *)
(***************************************************************************)
OwnerPoints(o) ==
    IF ~o.has_owner THEN 20
    ELSE IF o.is_renounced THEN 20
    ELSE IF o.is_multisig THEN 15
    ELSE 0

DangerPoints(n) == IF n = 0 THEN 10 ELSE IF n <= 2 THEN 5 ELSE 0

ProxyPenalty(px) == px.is_proxy /\ px.admin # NoAddr /\ px.admin # ZERO

\* A scoring whose proxy penalty is not stopped at 0.
CalculateRiskScoreUnfloored(o, n, px) ==
    LET base == OwnerPoints(o) + DangerPoints(n)
    IN  Min(30, IF ProxyPenalty(px) THEN base - 5 ELSE base)

CalculateRiskScore(o, n, px) ==
    LET base == OwnerPoints(o) + DangerPoints(n)
    IN  Min(30, IF ProxyPenalty(px) THEN Max(0, base - 5) ELSE base)

PermRiskLevel(score) ==
    IF score >= 25 THEN "low_risk"
    ELSE IF score >= 15 THEN "medium_risk"
    ELSE "high_risk"

\* The result dictionaries: score in hundredths, err: an "error" key is
\* present, owner / danger / proxy: the three findings.
PermRec(score, risk, err, owner, danger, proxy, summary) ==
    [score |-> score, risk |-> risk, err |-> err, owner |-> owner,
     danger |-> danger, proxy |-> proxy, summary |-> summary]

\* risk_summary: one entry for the owner, one for the dangerous functions
\* and, unless the token is a proxy without an admin, one for the proxy.
RiskSummary(o, n, px) ==
    << IF ~o.has_owner THEN "No owner function"
       ELSE IF o.is_renounced THEN "Owner renounced"
       ELSE IF o.is_multisig THEN "Owner is multisig/DAO"
       ELSE "Owner still has control",
       IF n = 0 THEN "No dangerous functions"
       ELSE IF n <= 2 THEN "few dangerous functions"
       ELSE "many dangerous functions" >>
    \o (IF ~px.is_proxy THEN << "Not a proxy contract" >>
        ELSE IF px.admin = NoAddr THEN << >>
        ELSE IF px.admin = ZERO THEN << "Proxy admin renounced" >>
        ELSE << "Upgradeable proxy with admin" >>)

NoProxy == [is_proxy |-> FALSE, admin |-> NoAddr]

PermNone == PermRec(0, "none", FALSE, OwnerInfo(FALSE, NoAddr, FALSE, FALSE),
                    0, NoProxy, << >>)

\* TotalScorer._analyze_permissions, the except branch; the findings are
\* the defaults _build_frontend_response reads from the missing keys.
PermErrorResult ==
    PermRec(0, "unknown", TRUE, OwnerInfo(FALSE, NoAddr, FALSE, FALSE), 0,
            NoProxy, << >>)

\* analyze_contract: [raised, res, ocache].
AnalyzeContract(ch, ocache, valid, env) ==
    LET o  == CheckOwner(ch, ocache, env)
        n  == CheckDangerousFunctions(ch)
        px == CheckProxyPattern(ch, env)
        sc == CalculateRiskScore(o.info, n, px)
    IN  IF ~valid
        THEN [raised |-> TRUE, res |-> PermNone, ocache |-> ocache]
        ELSE IF ~env.codeOk
        THEN [raised |-> TRUE, res |-> PermNone, ocache |-> o.ocache]
        ELSE [raised |-> FALSE,
              res |-> PermRec(100 * sc, PermRiskLevel(sc), FALSE, o.info, n,
                              px, RiskSummary(o.info, n, px)),
              ocache |-> o.ocache]

\* The checks of one analyze_contract run whose read errored: "owner" (the
\* owner() call, or the code read that tells whether the owner is a
\* contract), "code" (the bytecode read of the selector scan), "storage" (a
\* slot read of the proxy check).  A cached owner is not read, and a check
\* after a raising one is not reached.
CheckErrors(ch, ocache, valid, env) ==
    IF ~valid THEN {}
    ELSE (IF ocache.has THEN {}
          ELSE IF ~env.ownerOk THEN {"owner"}
          ELSE IF ch.owner \notin {"nofn", ZERO} /\ ~env.ownerCodeOk
          THEN {"owner"}
          ELSE {})
         \cup (IF ~env.codeOk THEN {"code"}
               ELSE IF env.storage # "ok" THEN {"storage"}
               ELSE {})

\* TotalScorer._analyze_permissions.
TotalAnalyzePermissions(out) == IF out.raised THEN PermErrorResult ELSE out.res

(***************************************************************************)
(* TotalScorer: the total, its level, the tags and the response.           *)
(***************************************************************************)
CalculateTotalScore(e, h, p) == e.score + h.score + p.score

\* A levelling whose thresholds are exclusive.
DetermineRiskLevelAbove(total) ==
    IF total > 8000 THEN "low_risk"
    ELSE IF total > 6000 THEN "medium_risk"
    ELSE IF total > 4000 THEN "high_risk"
    ELSE "extreme_risk"

DetermineRiskLevel(total) ==
    IF total >= 8000 THEN "low_risk"
    ELSE IF total >= 6000 THEN "medium_risk"
    ELSE IF total >= 4000 THEN "high_risk"
    ELSE "extreme_risk"

\* The keys of RISK_TAGS_CONFIG.
RiskTagsConfig ==
    { "ORGANIC_GROWTH", "MODERATE_ACTIVITY", "LOW_ACTIVITY", "DISTRIBUTED",
      "CONCENTRATED", "WHALE_CONTROLLED", "EXTREME_CONCENTRATION",
      "SAFE_CONTRACT", "LIMITED_RISK", "RUG_RISK" }

\* A tagging that puts the holder tag first.
GenerateRiskTagsHolderFirst(e, h, p) ==
    (IF h.risk = "low_risk" THEN << "DISTRIBUTED" >>
     ELSE IF h.risk = "medium_risk" THEN << "CONCENTRATED" >>
     ELSE IF h.risk = "high_risk" THEN << "WHALE_CONTROLLED" >>
     ELSE IF h.risk = "extreme_risk" THEN << "EXTREME_CONCENTRATION" >>
     ELSE << >>)
    \o (IF e.risk = "low_risk" THEN << "ORGANIC_GROWTH" >>
        ELSE IF e.risk = "medium_risk" THEN << "MODERATE_ACTIVITY" >>
        ELSE IF e.risk = "high_risk" THEN << "LOW_ACTIVITY" >>
        ELSE << >>)
    \o (IF p.risk = "low_risk" THEN << "SAFE_CONTRACT" >>
        ELSE IF p.risk = "medium_risk" THEN << "LIMITED_RISK" >>
        ELSE IF p.risk = "high_risk" THEN << "RUG_RISK" >>
        ELSE << >>)

GenerateRiskTags(e, h, p) ==
    (IF e.risk = "low_risk" THEN << "ORGANIC_GROWTH" >>
     ELSE IF e.risk = "medium_risk" THEN << "MODERATE_ACTIVITY" >>
     ELSE IF e.risk = "high_risk" THEN << "LOW_ACTIVITY" >>
     ELSE << >>)
    \o (IF h.risk = "low_risk" THEN << "DISTRIBUTED" >>
        ELSE IF h.risk = "medium_risk" THEN << "CONCENTRATED" >>
        ELSE IF h.risk = "high_risk" THEN << "WHALE_CONTROLLED" >>
        ELSE IF h.risk = "extreme_risk" THEN << "EXTREME_CONCENTRATION" >>
        ELSE << >>)
    \o (IF p.risk = "low_risk" THEN << "SAFE_CONTRACT" >>
        ELSE IF p.risk = "medium_risk" THEN << "LIMITED_RISK" >>
        ELSE IF p.risk = "high_risk" THEN << "RUG_RISK" >>
        ELSE << >>)

(***************************************************************************)
(* _build_frontend_response: the fields it copies from the three results.  *)
(* The "error" key of a result is not among them, and the source of the    *)
(* permission dimension is the literal "blockpi".                          *)
(***************************************************************************)
BuildFrontendResponse(m, from, to, total, risk, tags, e, h, p) ==
    [analysis_mode |-> m,
     block_range   |-> IF m = "deep" THEN <<from, to>> ELSE NoRange,
     data_sources  |-> [eoa |-> e.src, holder |-> h.src,
                        permission |-> "blockpi"],
     total_score   |-> total,
     risk_level    |-> risk,
     risk_tags     |-> tags,
     eoa    |-> [score |-> e.score, risk_level |-> e.risk,
                 metrics |-> [unique_eoa_count |-> e.count,
                              total_addresses |-> e.total,
                              eoa_percentage |-> e.pct,
                              events_count |-> e.events]],
     holder |-> [score |-> h.score, risk_level |-> h.risk,
                 metrics |-> [total_holders |-> h.total,
                              top10_percentage |-> h.top10]],
     permission |-> [score |-> p.score, risk_level |-> p.risk,
                     metrics |-> [owner |-> p.owner,
                                  is_proxy |-> p.proxy.is_proxy,
                                  dangerous_functions |-> p.danger,
                                  risk_summary |-> p.summary]]]

NoResponse ==
    BuildFrontendResponse("none", NoneBlock, NoneBlock, 0, "none", << >>,
                          EoaNone, HolderNone, PermNone)

(***************************************************************************)
(* The state.  nansen: a fast client is configured; chain: what the RPC    *)
(* node would answer; isEoaCache, holdersCache, ownerCache: the entries of *)
(* the three analyzers' caches for this token; pc: where score_token is;   *)
(* req: its arguments; mode, fromBlock, toBlock: its locals; the three     *)
(* results and the response.  eoaCall / holderCall record the fast call an *)
(* analyzer made and eoaOut / holderOut / permOut how the analyzer ended.  *)
(* calls counts the finished calls and prev is the response before the     *)
(* last one.  hsIn / hsOut are the argument and the value of one           *)
(* evaluation of the holder scoring function, arg / ret the arguments and  *)
(* the value of one evaluation of another scoring function, or the         *)
(* arguments and the progress of one adapter call run on its own.          *)
(***************************************************************************)
VARIABLES nansen, chain, isEoaCache, holdersCache, ownerCache, pc, req, mode,
          fromBlock, toBlock, eoaResult, holderResult, permResult, eoaCall,
          holderCall, eoaOut, holderOut, permOut, response, calls, prev,
          hsIn, hsOut, arg, ret

vars == <<nansen, chain, isEoaCache, holdersCache, ownerCache, pc, req, mode,
          fromBlock, toBlock, eoaResult, holderResult, permResult, eoaCall,
          holderCall, eoaOut, holderOut, permOut, response, calls, prev,
          hsIn, hsOut, arg, ret>>

pipeVars == <<nansen, chain, isEoaCache, holdersCache, ownerCache, pc, req,
              mode, fromBlock, toBlock, eoaResult, holderResult, permResult,
              eoaCall, holderCall, eoaOut, holderOut, permOut, response,
              calls, prev>>

(***************************************************************************)
(* The chains explored.  An event is [blk, from, to].                      *)
(***************************************************************************)
Ev(b, f, t) == [blk |-> b, from |-> f, to |-> t]

Chain(latest, events, bal, supply, decimals, owner, danger, impl, admin) ==
    [latest |-> latest, events |-> events, bal |-> bal, supply |-> supply,
     decimals |-> decimals, owner |-> owner, danger |-> danger,
     impl |-> impl, admin |-> admin]

Bal(a, b, k) == [x \in Addr |-> IF x = "a" THEN a ELSE IF x = "b" THEN b
                                ELSE IF x = "k" THEN k ELSE 0]

Worlds ==
    { Chain(5000, << >>, Bal(0, 0, 0), 0, 18, "nofn", 0, FALSE, NoAddr),
      Chain(5000, << Ev(4000, ZERO, "a") >>, Bal(MaxBalance, 0, 0),
            MaxBalance, 18, ZERO, 1, FALSE, NoAddr),
      Chain(60000, << Ev(4000, ZERO, "a"), Ev(59000, "a", "b"),
                      Ev(59500, "b", "k") >>, Bal(2, 1, 1), 4, 17, "a", 3,
            TRUE, "b"),
      Chain(60000, << Ev(55000, ZERO, "b"), Ev(59000, "b", "a") >>,
            Bal(1, MaxBalance, 0), 1 + MaxBalance, 18, "k", 0, TRUE, NoAddr) }

(***************************************************************************)
(* What the fast provider can answer about a chain: the holders by         *)
(* descending balance with their share of the supply, or with the share    *)
(* left out, or no holder at all; and the address statistics.              *)
(***************************************************************************)
RECURSIVE SortedHolders(_, _, _, _)
SortedHolders(d, S, supply, known) ==
    IF S = {} THEN << >>
    ELSE LET m == CHOOSE a \in S : \A b \in S : d[a] >= d[b]
         IN  << [addr |-> m, bal |-> d[m],
                 pct |-> IF known THEN RoundDiv(d[m] * 10000, supply)
                         ELSE UnknownPct] >>
             \o SortedHolders(d, S \ {m}, supply, known)

ProviderHolders(ch) ==
    LET S == {a \in Addr : ch.bal[a] > 0}
    IN  {<< >>} \cup {SortedHolders(ch.bal, S, ch.supply, k) : k \in BOOLEAN}

Stat(h, c) == [holders |-> h, count |-> c]

ProviderStats == {Stat(0, 0), Stat(10, 10), Stat(100, 60), Stat(1000, 400)}

\* What the attempts of one fast call can meet.
Outs(a, b, c, d) == <<a, b, c, d>>

AllRate == Outs("rate", "rate", "rate", "rate")

AttemptPatterns ==
    { Outs("ok", "ok", "ok", "ok"), Outs("app", "ok", "ok", "ok"),
      Outs("rate", "net", "ok", "ok"), Outs("net", "rate", "rate", "app"),
      AllRate, Outs("net", "net", "net", "net") }

NoCall == [made |-> FALSE, outs |-> Outs("ok", "ok", "ok", "ok"),
           final |-> "none", attempts |-> 0]

Call(outs) == [made |-> TRUE, outs |-> outs,
               final |-> NansenRequest(outs).final,
               attempts |-> NansenRequest(outs).attempts]

\* Which RPC reads succeed during one analyzer run.
EoaEnvs == [blockOk : BOOLEAN, logsOk : BOOLEAN, codeOk : BOOLEAN]

HolderEnvs == [latestOk : BOOLEAN, logsOk : BOOLEAN, balanceOk : BOOLEAN,
               supplyOk : BOOLEAN, decimalsOk : BOOLEAN]

PermEnvs == [ownerOk : BOOLEAN, ownerCodeOk : BOOLEAN, codeOk : BOOLEAN,
             storage : {"ok", "fail1", "fail2"}]

\* The arguments of score_token: a well-formed or malformed address, the
\* mode, time_window_hours.
Hours == {-1, 0, 1}

Requests == [valid : BOOLEAN, mode : {"auto", "fast", "deep"}, hours : Hours]

NoOut == [raised |-> FALSE, range |-> NoRange]

\* eoaOut before the EOA analyzer has run: records is the number of
\* records (holders analysed, Transfer events) the analyzer obtained.
EoaNoOut == [raised |-> FALSE, range |-> NoRange, records |-> NoRecords]

\* permOut before the permission analyzer has run: errors are the checks
\* whose read errored.
PermNoOut == [raised |-> FALSE, range |-> NoRange, errors |-> {}]

\* holderOut before the holder analyzer has run: given is the holder list
\* the provider answered, pcts the percentages _analyze_fast summed.
HolderNoOut == [raised |-> FALSE, range |-> NoRange, given |-> << >>,
                pcts |-> << >>]

NoHs == [score |-> -1, risk |-> "none"]

\* No scoring function evaluated on its own.
NoArg == [fn |-> "none"]

NoRet == [fn |-> "none"]

\* The state after construction: nothing cached, no call made.
InitPipe(W, N) ==
    /\ nansen \in N
    /\ chain \in W
    /\ isEoaCache = {}
    /\ holdersCache = NoHolders
    /\ ownerCache = NoOwnerCached
    /\ pc = "idle"
    /\ req = [valid |-> TRUE, mode |-> "auto", hours |-> 1]
    /\ mode = "none"
    /\ fromBlock = NoneBlock
    /\ toBlock = NoneBlock
    /\ eoaResult = EoaNone
    /\ holderResult = HolderNone
    /\ permResult = PermNone
    /\ eoaCall = NoCall
    /\ holderCall = NoCall
    /\ eoaOut = EoaNoOut
    /\ holderOut = HolderNoOut
    /\ permOut = PermNoOut
    /\ response = NoResponse
    /\ calls = 0
    /\ prev = NoResponse

Init ==
    /\ InitPipe(Worlds, BOOLEAN)
    /\ hsIn = 0
    /\ hsOut = NoHs
    /\ arg = NoArg
    /\ ret = NoRet

DeepDefaultBlocks == 10000

(***************************************************************************)
(* score_token up to the first analyzer: the mode is resolved, and in deep *)
(* mode the block range is derived from the block number, whose read is    *)
(* not guarded: when it fails (ok = FALSE) score_token raises.             *)
(***************************************************************************)
\* A score_token that takes auto for fast whether or not a fast client is
\* configured.
StartAutoFast(r, ok) ==
    LET m == IF r.mode = "auto" THEN "fast" ELSE r.mode
    IN  /\ req' = r
        /\ mode' = m
        /\ IF m = "deep"
           THEN IF ok
                THEN /\ toBlock' = chain.latest
                     /\ fromBlock' = Max(0, chain.latest - DeepDefaultBlocks)
                     /\ pc' = "eoa"
                ELSE /\ toBlock' = NoneBlock
                     /\ fromBlock' = NoneBlock
                     /\ pc' = "failed"
           ELSE /\ toBlock' = NoneBlock
                /\ fromBlock' = NoneBlock
                /\ pc' = "eoa"
        /\ eoaResult' = EoaNone
        /\ holderResult' = HolderNone
        /\ permResult' = PermNone
        /\ eoaCall' = NoCall
        /\ holderCall' = NoCall
        /\ eoaOut' = EoaNoOut
        /\ holderOut' = HolderNoOut
        /\ permOut' = PermNoOut
        /\ UNCHANGED <<nansen, chain, isEoaCache, holdersCache, ownerCache,
                       calls, hsIn, hsOut, arg, ret>>

Start(r, ok) ==
    LET m == IF r.mode = "auto" THEN (IF nansen THEN "fast" ELSE "deep")
             ELSE r.mode
    IN  /\ req' = r
        /\ mode' = m
        /\ IF m = "deep"
           THEN IF ok
                THEN /\ toBlock' = chain.latest
                     /\ fromBlock' = Max(0, chain.latest - DeepDefaultBlocks)
                     /\ pc' = "eoa"
                ELSE /\ toBlock' = NoneBlock
                     /\ fromBlock' = NoneBlock
                     /\ pc' = "failed"
           ELSE /\ toBlock' = NoneBlock
                /\ fromBlock' = NoneBlock
                /\ pc' = "eoa"
        /\ eoaResult' = EoaNone
        /\ holderResult' = HolderNone
        /\ permResult' = PermNone
        /\ eoaCall' = NoCall
        /\ holderCall' = NoCall
        /\ eoaOut' = EoaNoOut
        /\ holderOut' = HolderNoOut
        /\ permOut' = PermNoOut
        /\ UNCHANGED <<nansen, chain, isEoaCache, holdersCache, ownerCache,
                       calls, hsIn, hsOut, arg, ret>>

Submit(Reqs, Oks) ==
    /\ pc = "idle"
    /\ \E r \in Reqs, ok \in Oks : Start(r, ok)
    /\ UNCHANGED <<response, prev>>

\* [1/3] self._analyze_eoa(...)
AnalyzeEoa(Patterns, Envs) ==
    /\ pc = "eoa"
    /\ \E outs \in Patterns, st \in ProviderStats, env \in Envs :
          LET call == IF mode = "fast" /\ nansen THEN Call(outs) ELSE NoCall
              out  == EoaAnalyze(chain, isEoaCache, nansen, req.valid, mode,
                                 OrZero(fromBlock), toBlock, req.hours, call,
                                 st, env)
          IN  /\ eoaCall' = call
              /\ eoaOut' = [raised |-> out.raised, range |-> out.range,
                             records |-> out.records]
              /\ eoaResult' = TotalAnalyzeEoa(out)
              /\ isEoaCache' = out.cache
    /\ pc' = "holder"
    /\ UNCHANGED <<nansen, chain, holdersCache, ownerCache, req, mode,
                   fromBlock, toBlock, holderResult, permResult, holderCall,
                   holderOut, permOut, response, calls, prev, hsIn, hsOut, arg, ret>>

\* [2/3] self._analyze_holders(...)
AnalyzeHolders(Patterns, Envs) ==
    /\ pc = "holder"
    /\ \E outs \in Patterns, hs \in ProviderHolders(chain), env \in Envs :
          LET call == IF mode = "fast" /\ nansen THEN Call(outs) ELSE NoCall
              out  == HolderAnalyze(chain, holdersCache, nansen, req.valid,
                                    mode, OrZero(fromBlock), toBlock, call,
                                    hs, env)
          IN  /\ holderCall' = call
              /\ holderOut' = [raised |-> out.raised, range |-> out.range,
                                given |-> IF call.final = "ok" THEN hs
                                          ELSE << >>,
                                pcts |-> out.pcts]
              /\ holderResult' = TotalAnalyzeHolders(out)
              /\ holdersCache' = out.hcache
    /\ pc' = "perm"
    /\ UNCHANGED <<nansen, chain, isEoaCache, ownerCache, req, mode,
                   fromBlock, toBlock, eoaResult, permResult, eoaCall,
                   eoaOut, permOut, response, calls, prev, hsIn, hsOut, arg, ret>>

\* [3/3] self._analyze_permissions(...)
AnalyzePermissions(Envs) ==
    /\ pc = "perm"
    /\ \E env \in Envs :
          LET out == AnalyzeContract(chain, ownerCache, req.valid, env)
          IN  /\ permOut' = [raised |-> out.raised, range |-> NoRange,
                              errors |-> CheckErrors(chain, ownerCache,
                                                     req.valid, env)]
              /\ permResult' = TotalAnalyzePermissions(out)
              /\ ownerCache' = out.ocache
    /\ pc' = "agg"
    /\ UNCHANGED <<nansen, chain, isEoaCache, holdersCache, req, mode,
                   fromBlock, toBlock, eoaResult, holderResult, eoaCall,
                   holderCall, eoaOut, holderOut, response, calls, prev,
                   hsIn, hsOut, arg, ret>>

\* The total, the level, the tags and the response; score_token returns.
Aggregate ==
    /\ pc = "agg"
    /\ LET total == CalculateTotalScore(eoaResult, holderResult, permResult)
       IN  response' = BuildFrontendResponse(mode, fromBlock, toBlock, total,
                           DetermineRiskLevel(total),
                           GenerateRiskTags(eoaResult, holderResult,
                                            permResult),
                           eoaResult, holderResult, permResult)
    /\ pc' = "done"
    /\ calls' = calls + 1
    /\ UNCHANGED <<nansen, chain, isEoaCache, holdersCache, ownerCache, req,
                   mode, fromBlock, toBlock, eoaResult, holderResult,
                   permResult, eoaCall, holderCall, eoaOut, holderOut,
                   permOut, prev, hsIn, hsOut, arg, ret>>

Next ==
    \/ Submit(Requests, BOOLEAN)
    \/ AnalyzeEoa(AttemptPatterns, EoaEnvs)
    \/ AnalyzeHolders(AttemptPatterns, HolderEnvs)
    \/ AnalyzePermissions(PermEnvs)
    \/ Aggregate

Spec == Init /\ [][Next]_vars

(***************************************************************************)
(* Properties of one score_token call (specification Spec).                *)
(***************************************************************************)
AfterEoa == pc \in {"holder", "perm", "agg", "done"}

AfterHolders == pc \in {"perm", "agg", "done"}

AfterPermissions == pc \in {"agg", "done"}

\* C1: after any score_token call the total score is the sum of the three
\* dimension scores of the response and lies in [0, 100], whatever the
\* analyzers' outcomes were.
C1_TotalIsSumInRange ==
    pc = "done" =>
        /\ response.total_score = response.eoa.score + response.holder.score
                                     + response.permission.score
        /\ 0 <= response.total_score
        /\ response.total_score <= 10000

\* C2: every score an analyzer returns lies in [0, max_score], with
\* max_score 40 for activity, 30 for holders and 30 for permission.
C2_ScoresInRange ==
    /\ AfterEoa /\ ~eoaOut.raised =>
          0 <= eoaResult.score /\ eoaResult.score <= 100 * EoaMaxScore
    /\ AfterHolders /\ ~holderOut.raised =>
          0 <= holderResult.score /\ holderResult.score <= 3000
    /\ AfterPermissions /\ ~permOut.raised =>
          0 <= permResult.score /\ permResult.score <= 3000

\* The response tells that a dimension failed: the only trace a failure can
\* leave in it is the data source "error".
ErrorNoted(dim) == response.data_sources[dim] = "error"

\* C3: when a dimension analyzer raised, the call still returns, and the
\* response shows that dimension with score 0, risk level "unknown" and an
\* error note.
C3_FailedDimensionNoted ==
    pc = "done" =>
        /\ eoaOut.raised =>
              /\ response.eoa.score = 0
              /\ response.eoa.risk_level = "unknown"
              /\ ErrorNoted("eoa")
        /\ holderOut.raised =>
              /\ response.holder.score = 0
              /\ response.holder.risk_level = "unknown"
              /\ ErrorNoted("holder")
        /\ permOut.raised =>
              /\ response.permission.score = 0
              /\ response.permission.risk_level = "unknown"
              /\ ErrorNoted("permission")

\* C4: score_token fails outright exactly when the token address is
\* malformed: a call that raised had a malformed address, and a call that
\* returned a result (or got as far as an analyzer) had a well-formed one.
C4_FailsIffInvalid ==
    /\ pc = "failed" => ~req.valid
    /\ pc \in {"eoa", "holder", "perm", "agg", "done"} => req.valid

\* C8: the zero address is in no address set an analyzer builds and is not
\* counted in unique_eoa_count, total_addresses or the holder set.
C8_ZeroAddressExcluded ==
    /\ AfterEoa =>
          /\ ZERO \notin eoaResult.all
          /\ ZERO \notin eoaResult.eoas
          /\ eoaResult.src = "blockpi" =>
                /\ eoaResult.count = Cardinality(eoaResult.eoas \ {ZERO})
                /\ eoaResult.total = Cardinality(eoaResult.all \ {ZERO})
    /\ AfterHolders => ZERO \notin holderResult.set

\* C10: the top10_percentage the holder analyzer reports lies in [0, 100],
\* in fast mode (provider or recomputed percentages) and in deep mode.
C10_Top10InRange ==
    AfterHolders /\ ~holderOut.raised =>
        0 <= holderResult.top10 /\ holderResult.top10 <= 10000

\* The results the deep EOA scan can return over [from, to], and the deep
\* holder scan likewise.
DeepEoaResults(from, to) ==
    {AnalyzeTransferEvents(chain, isEoaCache, req.valid, from, to, req.hours,
                           e).res : e \in EoaEnvs} \ {EoaNone}

DeepHolderResults(from, to) ==
    {AnalyzeHolderConcentration(chain, NoHolders, req.valid, from, to, e).res :
        e \in HolderEnvs} \ {HolderNone}

\* What the permission analyzer can return for the token.
PermResults ==
    {TotalAnalyzePermissions(AnalyzeContract(chain, NoOwnerCached, req.valid,
                                             e)) : e \in PermEnvs}

\* C5: a fast call whose every attempt is rate limited ends, after the last
\* attempt, in the error result of its dimension: data_source "error",
\* score 0, and no deep scan.  The other dimensions end as they do
\* otherwise: a holder call that succeeded gives the provider's result and
\* the permission result is one the permission analyzer returns.
C5_RateLimitedIsError ==
    /\ AfterEoa /\ eoaCall.made /\ eoaCall.outs = AllRate =>
          /\ eoaCall.attempts = MaxAttempts
          /\ eoaResult.src = "error"
          /\ eoaResult.score = 0
          /\ eoaOut.range = NoRange
    /\ AfterHolders /\ holderCall.made /\ holderCall.outs = AllRate =>
          /\ holderCall.attempts = MaxAttempts
          /\ holderResult.src = "error"
          /\ holderResult.score = 0
          /\ holderOut.range = NoRange
    /\ pc = "done" /\ eoaCall.made /\ eoaCall.outs = AllRate =>
          /\ holderCall.final = "ok" => holderResult.src = "nansen"
          /\ permResult \in PermResults
          /\ response.holder.score = holderResult.score
          /\ response.permission.score = permResult.score

C5_Witness ==
    /\ pc = "done"
    /\ eoaCall.made /\ eoaCall.outs = AllRate
    /\ holderCall.final = "ok" /\ holderResult.score > 0
    /\ ~permOut.raised /\ permResult.score > 0
    /\ response.total_score = holderResult.score + permResult.score

\* C6 as stated: an application error of the fast provider always ends in
\* the deep result over [max(0, latest - N), latest].
C6_FallbackReturnsDeep ==
    /\ AfterEoa /\ eoaCall.final = "app" =>
          /\ ~eoaOut.raised
          /\ eoaOut.range = <<Max(0, chain.latest - 10000), chain.latest>>
          /\ eoaResult.src = "blockpi"
    /\ AfterHolders /\ holderCall.final = "app" =>
          /\ ~holderOut.raised
          /\ holderOut.range = <<Max(0, chain.latest - 50000), chain.latest>>
          /\ holderResult.src = "blockpi"

\* C6, amended: after an application error of the fast provider the
\* analyzer alone turns to the deep scan over [max(0, latest - N), latest]
\* (N = 10000 for EOA, 50000 for holders), with 0 <= from <= to; when the
\* latest-block read and the scan succeed its result is the deep result
\* over that range, otherwise the dimension gets the zero-score error
\* result.  score_token does not raise, its mode stays fast, and a sibling
\* whose fast call succeeded keeps the provider's result.
C6_FallbackDeepOrError ==
    /\ AfterEoa /\ eoaCall.final = "app" =>
          IF eoaOut.raised THEN eoaResult = EoaErrorResult
          ELSE /\ eoaOut.range
                    = <<Max(0, chain.latest - 10000), chain.latest>>
               /\ 0 <= eoaOut.range[1] /\ eoaOut.range[1] <= eoaOut.range[2]
               /\ eoaResult \in DeepEoaResults(eoaOut.range[1],
                                                eoaOut.range[2])
    /\ AfterHolders /\ holderCall.final = "app" =>
          IF holderOut.raised THEN holderResult = HolderErrorResult
          ELSE /\ holderOut.range
                    = <<Max(0, chain.latest - 50000), chain.latest>>
               /\ 0 <= holderOut.range[1]
               /\ holderOut.range[1] <= holderOut.range[2]
               /\ holderResult \in DeepHolderResults(holderOut.range[1],
                                                      holderOut.range[2])
    /\ eoaCall.final = "app" \/ holderCall.final = "app" =>
          /\ pc # "failed"
          /\ mode = "fast"
          /\ pc = "done" => response.analysis_mode = "fast"
    /\ AfterHolders /\ eoaCall.final = "app" /\ holderCall.final = "ok" =>
          holderResult.src = "nansen"
    /\ AfterHolders /\ holderCall.final = "app" /\ eoaCall.final = "ok"
          /\ ~eoaOut.raised =>
          eoaResult.src = "nansen"

C6_Witness ==
    /\ pc = "done"
    /\ eoaCall.final = "app" /\ ~eoaOut.raised
    /\ eoaOut.range[1] = 0 /\ eoaResult.count > 0
    /\ holderCall.final = "app" /\ ~holderOut.raised
    /\ holderResult.src = "blockpi" /\ holderResult.score > 0

(***************************************************************************)
(* The holder scoring function on its own (specification SpecHolderScore): *)
(* _calculate_score and _determine_risk_level applied to a percentage, and *)
(* the standalone deep analysis analyze(token, mode="deep", from_block=0)  *)
(* of a token with a single holder.                                        *)
(***************************************************************************)
SingleHolderWorlds ==
    {w \in Worlds : Cardinality({a \in Addr : w.bal[a] > 0}) = 1}

AllOkHolderEnv == [latestOk |-> TRUE, logsOk |-> TRUE, balanceOk |-> TRUE,
                   supplyOk |-> TRUE, decimalsOk |-> TRUE]

InitHolderScore ==
    /\ InitPipe(SingleHolderWorlds, {FALSE})
    /\ hsIn \in 0..MaxTop10
    /\ hsOut = NoHs
    /\ arg = NoArg
    /\ ret = NoRet

CalculateScore ==
    /\ hsOut = NoHs
    /\ hsOut' = [score |-> HolderCalculateScore(hsIn),
                 risk |-> HolderDetermineRiskLevel(hsIn)]
    /\ UNCHANGED <<pipeVars, hsIn, arg, ret>>

ScanHolders ==
    /\ holderResult = HolderNone
    /\ LET out == AnalyzeHolderConcentration(chain, holdersCache, TRUE, 0,
                                             NoneBlock, AllOkHolderEnv)
       IN  /\ holderResult' = out.res
           /\ holdersCache' = out.hcache
    /\ UNCHANGED <<nansen, chain, isEoaCache, ownerCache, pc, req, mode,
                   fromBlock, toBlock, eoaResult, permResult, eoaCall,
                   holderCall, eoaOut, holderOut, permOut, response, calls,
                   prev, hsIn, hsOut, arg, ret>>

NextHolderScore == CalculateScore \/ ScanHolders

SpecHolderScore == InitHolderScore /\ [][NextHolderScore]_vars

\* C9: for a top-10 percentage p (hsIn, hundredths of a percent) the holder
\* score (hsOut.score, in 1/3000 of a point) is 30 for p <= 20,
\* 30 - (p - 20) * 0.5 for 20 < p <= 40, 20 - (p - 40) * (10/30) for
\* 40 < p <= 70 and max(3, 10 - (p - 70) * (7/30)) above; the risk level is
\* low for p <= 20, medium for p <= 40, high for p <= 60, extreme
\* otherwise; and a single holder of the whole supply gets top10 = 100,
\* score 3 and "extreme_risk".
C9_HolderScoreFunction ==
    /\ hsOut # NoHs =>
          /\ hsIn <= 2000 => hsOut.score = 3000 * 30
          /\ 2000 < hsIn /\ hsIn <= 4000 =>
                200 * hsOut.score = 3000 * (6000 - (hsIn - 2000))
          /\ 4000 < hsIn /\ hsIn <= 7000 =>
                300 * hsOut.score = 3000 * (6000 - (hsIn - 4000))
          /\ 7000 < hsIn =>
                /\ hsOut.score >= 3000 * 3
                /\ hsOut.score >= 3000 * 10 - 7 * (hsIn - 7000)
                /\ \/ hsOut.score = 3000 * 3
                   \/ hsOut.score = 3000 * 10 - 7 * (hsIn - 7000)
          /\ hsOut.risk = IF hsIn <= 2000 THEN "low_risk"
                          ELSE IF hsIn <= 4000 THEN "medium_risk"
                          ELSE IF hsIn <= 6000 THEN "high_risk"
                          ELSE "extreme_risk"
    /\ holderResult # HolderNone /\ Cardinality(holderResult.set) = 1 =>
          /\ holderResult.top10 = 10000
          /\ holderResult.score = 300
          /\ holderResult.risk = "extreme_risk"

C9_Witness ==
    /\ hsIn = 8500
    /\ hsOut = [score |-> 19500, risk |-> "extreme_risk"]
    /\ Cardinality(holderResult.set) = 1
    /\ holderResult.score = 300

(***************************************************************************)
(* Two score_token calls with the same arguments, both within the TTL of   *)
(* every cache entry (no entry expires), every RPC read and provider call  *)
(* succeeding, and the chain moving on between them (specification         *)
(* SpecTwice).                                                             *)
(***************************************************************************)
TwiceRequests == [valid : {TRUE}, mode : {"auto", "fast", "deep"}, hours : {1}]

OkPatterns == {Outs("ok", "ok", "ok", "ok")}

AllOkEoaEnvs == {[blockOk |-> TRUE, logsOk |-> TRUE, codeOk |-> TRUE]}

AllOkPermEnvs == {[ownerOk |-> TRUE, ownerCodeOk |-> TRUE, codeOk |-> TRUE,
                   storage |-> "ok"]}

\* What can happen on the chain between the calls: the proxy admin slot is
\* set (an upgrade), or a block mints one token to b.
Upgraded(ch) ==
    [ch EXCEPT !.impl = TRUE, !.admin = IF ch.admin = "b" THEN "a" ELSE "b"]

Minted(ch) ==
    [ch EXCEPT !.latest = ch.latest + 100,
               !.events = Append(ch.events, Ev(ch.latest + 100, ZERO, "b")),
               !.bal = [ch.bal EXCEPT !["b"] = ch.bal["b"] + 1],
               !.supply = ch.supply + 1]

ChainChange ==
    /\ pc = "done"
    /\ calls = 1
    /\ chain \in Worlds
    /\ chain' \in {Upgraded(chain), Minted(chain)}
    /\ UNCHANGED <<nansen, isEoaCache, holdersCache, ownerCache, pc, req,
                   mode, fromBlock, toBlock, eoaResult, holderResult,
                   permResult, eoaCall, holderCall, eoaOut, holderOut,
                   permOut, response, calls, prev, hsIn, hsOut, arg, ret>>

\* The second call, with the arguments of the first.
Resubmit ==
    /\ pc = "done"
    /\ calls = 1
    /\ prev' = response
    /\ Start(req, TRUE)
    /\ UNCHANGED response

NextTwice ==
    \/ Submit(TwiceRequests, {TRUE})
    \/ AnalyzeEoa(OkPatterns, AllOkEoaEnvs)
    \/ AnalyzeHolders(OkPatterns, {AllOkHolderEnv})
    \/ AnalyzePermissions(AllOkPermEnvs)
    \/ Aggregate
    \/ ChainChange
    \/ Resubmit

SpecTwice == Init /\ [][NextTwice]_vars

\* C7: the second of two score_token calls with identical arguments, made
\* within the cache TTL, returns the same metrics as the first for all
\* three dimensions, even when the live data changed in between.
C7_SecondCallSameMetrics ==
    pc = "done" /\ calls = 2 =>
        /\ response.eoa.metrics = prev.eoa.metrics
        /\ response.holder.metrics = prev.holder.metrics
        /\ response.permission.metrics = prev.permission.metrics


(***************************************************************************)
(* The fast holder analysis and the provider's "unknown" percentages.      *)
(***************************************************************************)
\* The provider answered a holder list that leaves a percentage out.
MarkedUnknown ==
    /\ AfterHolders
    /\ holderCall.final = "ok"
    /\ \E i \in 1..Len(holderOut.given) : holderOut.given[i].pct < 0

\* C11: when the provider marks the percentages unknown, every percentage
\* that enters the top-10 sum has been replaced by balance / totalSupply *
\* 100, or by 0 (the supply is 0 or cannot be read), and none is negative.
C11_UnknownPercentagesRecomputed ==
    MarkedUnknown =>
        /\ Len(holderOut.pcts) = Len(holderOut.given)
        /\ \A i \in 1..Len(holderOut.pcts) :
              /\ holderOut.pcts[i].pct >= 0
              /\ \/ holderOut.pcts[i].pct = 0
                 \/ /\ chain.supply > 0
                    /\ holderOut.pcts[i].pct
                          = RoundDiv(holderOut.given[i].bal * 10000,
                                     chain.supply)

(***************************************************************************)
(* The holder analyzer when no holder is found.                            *)
(***************************************************************************)
\* The fast provider answered an empty holder list.
ZeroHoldersFast ==
    AfterHolders /\ holderCall.final = "ok" /\ Len(holderOut.given) = 0

\* The deep scan (asked for, or the fallback) found no address with a
\* balance: get_all_holders stored the empty dictionary.
ZeroHoldersDeep ==
    AfterHolders /\ holdersCache.has /\ DOMAIN holdersCache.dict = {}

\* C12: when zero holders are found, in fast and in deep analysis, the holder
\* analyzer returns, without raising, score 0, risk level "unknown" and an
\* error note.
C12_ZeroHoldersUnknown ==
    ZeroHoldersFast \/ ZeroHoldersDeep =>
        /\ ~holderOut.raised
        /\ holderResult.score = 0
        /\ holderResult.risk = "unknown"
        /\ holderResult.err
        /\ holderResult.src = IF ZeroHoldersFast THEN "nansen" ELSE "blockpi"

C12_Witness ==
    /\ pc = "done"
    /\ ZeroHoldersDeep
    /\ mode = "deep"
    /\ response.holder.score = 0
    /\ response.holder.risk_level = "unknown"

(***************************************************************************)
(* The scoring functions on their own: one evaluation of one function on   *)
(* arguments drawn from bounded sets.                                      *)
(***************************************************************************)
MaxCount == 600

MaxHours == 2

\* _calculate_score(unique_eoa_count, time_window_hours): a count and a
\* window, which the API does not require to be positive; 0 raises.
EoaScoreArgs ==
    [fn : {"eoa"}, count : 0..MaxCount, hours : {-1} \cup 1..MaxHours]

MaxDanger == 6

\* The owner findings check_owner can return: no owner function, owner
\* renounced, owner a contract, owner an EOA.
OwnerStates ==
    { OwnerInfo(FALSE, NoAddr, FALSE, FALSE), OwnerInfo(TRUE, ZERO, TRUE, FALSE),
      OwnerInfo(TRUE, "k", FALSE, TRUE), OwnerInfo(TRUE, "a", FALSE, FALSE) }

\* The proxy findings: not a proxy, a proxy whose admin slot is empty, a
\* proxy whose admin is the zero address, a proxy with an admin.
ProxyStates ==
    { [is_proxy |-> FALSE, admin |-> NoAddr],
      [is_proxy |-> TRUE, admin |-> NoAddr],
      [is_proxy |-> TRUE, admin |-> ZERO],
      [is_proxy |-> TRUE, admin |-> "b"] }

\* _calculate_risk_score(owner_info, dangerous_functions, proxy_info).
PermScoreArgs ==
    [fn : {"perm"}, owner : OwnerStates, danger : 0..MaxDanger,
     proxy : ProxyStates]

MaxTotal == 10000

\* _determine_risk_level(total_score): a total in hundredths.
LevelArgs == [fn : {"level"}, total : 0..MaxTotal]

\* The risk levels a result can carry.
RiskLevels ==
    {"low_risk", "medium_risk", "high_risk", "extreme_risk", "unknown"}

\* _generate_risk_tags(eoa_result, holder_result, permission_result): the
\* risk_level of each result.
TagArgs ==
    [fn : {"tags"}, eoa : RiskLevels, holder : RiskLevels,
     permission : RiskLevels]

ScoringArgs == EoaScoreArgs \cup PermScoreArgs \cup LevelArgs \cup TagArgs

InitScoring ==
    /\ InitPipe({CHOOSE w \in Worlds : w.events = << >>}, {FALSE})
    /\ hsIn = 0
    /\ hsOut = NoHs
    /\ arg \in ScoringArgs
    /\ ret = NoRet

EoaScore ==
    /\ arg.fn = "eoa"
    /\ ret = NoRet
    /\ ret' = EoaCalculateScore(arg.count, arg.hours)
    /\ UNCHANGED <<pipeVars, hsIn, hsOut, arg>>

PermScore ==
    /\ arg.fn = "perm"
    /\ ret = NoRet
    /\ LET sc == CalculateRiskScore(arg.owner, arg.danger, arg.proxy)
       IN  ret' = [score |-> sc, risk |-> PermRiskLevel(sc)]
    /\ UNCHANGED <<pipeVars, hsIn, hsOut, arg>>

TotalLevel ==
    /\ arg.fn = "level"
    /\ ret = NoRet
    /\ ret' = [risk |-> DetermineRiskLevel(arg.total)]
    /\ UNCHANGED <<pipeVars, hsIn, hsOut, arg>>

RiskTags ==
    /\ arg.fn = "tags"
    /\ ret = NoRet
    /\ ret' = [tags |-> GenerateRiskTags([risk |-> arg.eoa],
                                         [risk |-> arg.holder],
                                         [risk |-> arg.permission])]
    /\ UNCHANGED <<pipeVars, hsIn, hsOut, arg>>

NextScoring == EoaScore \/ PermScore \/ TotalLevel \/ RiskTags

SpecScoring == InitScoring /\ [][NextScoring]_vars

Abs(x) == IF x < 0 THEN 0 - x ELSE x

\* C13: with normalized = count / hours (here C / H with H > 0), the activity
\* score is 40 and "low_risk" for normalized >= 300, 20 + (normalized - 50)
\* / 250 * 20 and "medium_risk" for 50 <= normalized < 300, normalized / 50
\* * 20 and "high_risk" below 50, each rounded to hundredths; it does not
\* decrease when normalized grows, and it makes no jump: one more address
\* moves it by at most 0.40 (and the rounding).
C13_ActivityScore ==
    arg.fn = "eoa" /\ ret # NoRet =>
        LET s == IF arg.hours > 0 THEN 1 ELSE -1
            C == arg.count * s
            H == arg.hours * s
        IN  /\ C >= 300 * H => ret.score = 4000 /\ ret.risk = "low_risk"
            /\ 50 * H <= C /\ C < 300 * H =>
                  /\ 2 * Abs(H * ret.score - (1600 * H + 8 * C)) <= H
                  /\ ret.risk = "medium_risk"
            /\ C < 50 * H =>
                  /\ 2 * Abs(H * ret.score - 40 * C) <= H
                  /\ ret.risk = "high_risk"
            /\ \A a \in EoaScoreArgs :
                  LET s2 == IF a.hours > 0 THEN 1 ELSE -1
                      C2 == a.count * s2
                      H2 == a.hours * s2
                      r2 == EoaCalculateScore(a.count, a.hours)
                  IN  /\ C * H2 <= C2 * H => ret.score <= r2.score
                      /\ a.hours = arg.hours /\ a.count = arg.count + 1 =>
                            Abs(r2.score - ret.score) <= 41

C13_Witness ==
    /\ arg = [fn |-> "eoa", count |-> 500, hours |-> 1]
    /\ ret = [score |-> 4000, risk |-> "low_risk"]

(***************************************************************************)
(* The activity analyzer when it has no record to count.                   *)
(***************************************************************************)
\* C14: when the activity analyzer obtains zero records (fast: the provider
\* analysed no holder; deep: the range holds no Transfer event), it returns,
\* without raising, score 0 and "high_risk", not "unknown".
C14_ZeroRecordsHighRisk ==
    AfterEoa /\ eoaOut.records = 0 =>
        /\ ~eoaOut.raised
        /\ eoaResult.score = 0
        /\ eoaResult.risk = "high_risk"
        /\ ~eoaResult.err
        /\ eoaResult.src = IF eoaCall.final = "ok" THEN "nansen" ELSE "blockpi"

C14_Witness ==
    /\ pc = "done"
    /\ eoaOut.records = 0
    /\ eoaCall.final = "ok"
    /\ req.hours = 0
    /\ response.eoa.score = 0
    /\ response.eoa.risk_level = "high_risk"

C16_CheckErrorNotFatal ==
    AfterPermissions /\ req.valid /\ Cardinality(permOut.errors) = 1 =>
        /\ ~permOut.raised
        /\ permResult.risk # "unknown"
        /\ "owner" \in permOut.errors =>
              /\ ~permResult.owner.has_owner
              /\ permResult.score
                    = 100 * CalculateRiskScore(
                                OwnerInfo(FALSE, NoAddr, FALSE, FALSE),
                                permResult.danger, permResult.proxy)

\* C17: the overall risk level depends on the total score only: "low_risk"
\* from 80, "medium_risk" from 60 and below 80, "high_risk" from 40 and
\* below 60, "extreme_risk" below 40.
C17_RiskLevelOfTotal ==
    /\ arg.fn = "level" /\ ret # NoRet =>
          /\ ret.risk = "low_risk" <=> arg.total >= 8000
          /\ ret.risk = "medium_risk" <=>
                6000 <= arg.total /\ arg.total < 8000
          /\ ret.risk = "high_risk" <=>
                4000 <= arg.total /\ arg.total < 6000
          /\ ret.risk = "extreme_risk" <=> arg.total < 4000

C17_Witness ==
    /\ arg = [fn |-> "level", total |-> 6800]
    /\ ret = [risk |-> "medium_risk"]

\* C18: the risk tags are fixed by the three risk levels: at most one tag
\* for each dimension, the tag of the EOA dimension first, then the
\* holder's, then the permission's; "unknown" gives no tag; every tag is a
\* key of the tag configuration.
C18_RiskTagsOfLevels ==
    arg.fn = "tags" /\ ret # NoRet =>
        LET eoaTag == [l \in RiskLevels |->
                          IF l = "low_risk" THEN << "ORGANIC_GROWTH" >>
                          ELSE IF l = "medium_risk"
                          THEN << "MODERATE_ACTIVITY" >>
                          ELSE IF l = "high_risk" THEN << "LOW_ACTIVITY" >>
                          ELSE << >>]
            holderTag == [l \in RiskLevels |->
                          IF l = "low_risk" THEN << "DISTRIBUTED" >>
                          ELSE IF l = "medium_risk" THEN << "CONCENTRATED" >>
                          ELSE IF l = "high_risk"
                          THEN << "WHALE_CONTROLLED" >>
                          ELSE IF l = "extreme_risk"
                          THEN << "EXTREME_CONCENTRATION" >>
                          ELSE << >>]
            permTag == [l \in RiskLevels |->
                          IF l = "low_risk" THEN << "SAFE_CONTRACT" >>
                          ELSE IF l = "medium_risk" THEN << "LIMITED_RISK" >>
                          ELSE IF l = "high_risk" THEN << "RUG_RISK" >>
                          ELSE << >>]
        IN  /\ ret.tags = eoaTag[arg.eoa] \o holderTag[arg.holder]
                             \o permTag[arg.permission]
            /\ Len(ret.tags) <= 3
            /\ \A i \in 1..Len(ret.tags) : ret.tags[i] \in RiskTagsConfig
            /\ Len(eoaTag["unknown"]) = 0 /\ Len(holderTag["unknown"]) = 0
               /\ Len(permTag["unknown"]) = 0

C18_Witness ==
    /\ arg = [fn |-> "tags", eoa |-> "high_risk", holder |-> "unknown",
              permission |-> "low_risk"]
    /\ ret = [tags |-> << "LOW_ACTIVITY", "SAFE_CONTRACT" >>]

(***************************************************************************)
(* The resolution of mode = "auto".                                        *)
(***************************************************************************)
\* C19: a request with mode "auto" is resolved once, to "fast" exactly when
\* a fast client is configured and to "deep" otherwise; the EOA and the
\* holder analyzer both run in the resolved mode (both make the fast call,
\* or neither does), the response's analysis_mode is the resolved mode, and
\* fast is never chosen without a fast client.
C19_AutoResolvedOnce ==
    pc # "idle" /\ req.mode = "auto" =>
        /\ mode = IF nansen THEN "fast" ELSE "deep"
        /\ mode = "fast" => nansen
        /\ AfterEoa => eoaCall.made = (mode = "fast")
        /\ AfterHolders => holderCall.made = (mode = "fast")
        /\ AfterEoa /\ mode = "deep" =>
              eoaOut.range = <<fromBlock, toBlock>>
        /\ AfterHolders /\ mode = "deep" =>
              holderOut.range = <<fromBlock, toBlock>>
        /\ pc = "done" => response.analysis_mode = mode

C19_Witness ==
    /\ pc = "done"
    /\ req.mode = "auto"
    /\ ~nansen
    /\ response.analysis_mode = "deep"
    /\ ~eoaCall.made /\ ~holderCall.made
    /\ ~eoaOut.raised /\ ~holderOut.raised

(***************************************************************************)
(* score_token when an adapter call does not respond.  score_token takes   *)
(* no timeout and runs the three analyzers one after the other, each call  *)
(* a synchronous one.  arg.dim is the dimension whose adapter call stalls  *)
(* ("none": every call responds).  The analyzer of that dimension ends     *)
(* only if the transport gives the call up, which then reads as a network  *)
(* failure; nothing in the code makes the transport do so.                 *)
(***************************************************************************)
StallArgs == [fn : {"stall"}, dim : {"none", "eoa", "holder", "perm"}]

NetPatterns == {Outs("net", "net", "net", "net")}

FailedEoaEnvs == {[blockOk |-> FALSE, logsOk |-> FALSE, codeOk |-> FALSE]}

FailedHolderEnvs ==
    {[latestOk |-> FALSE, logsOk |-> FALSE, balanceOk |-> FALSE,
      supplyOk |-> FALSE, decimalsOk |-> FALSE]}

FailedPermEnvs == {[ownerOk |-> FALSE, ownerCodeOk |-> FALSE,
                    codeOk |-> FALSE, storage |-> "fail1"]}

InitStall ==
    /\ InitPipe(Worlds, BOOLEAN)
    /\ hsIn = 0
    /\ hsOut = NoHs
    /\ arg \in StallArgs
    /\ ret = NoRet

SubmitStall == Submit(TwiceRequests, {TRUE})

\* The calls of the analyzer respond.
RespondEoa == arg.dim # "eoa" /\ AnalyzeEoa(OkPatterns, AllOkEoaEnvs)

RespondHolders ==
    arg.dim # "holder" /\ AnalyzeHolders(OkPatterns, {AllOkHolderEnv})

RespondPermissions == arg.dim # "perm" /\ AnalyzePermissions(AllOkPermEnvs)

\* The transport gives the stalled calls up.
AbortEoa == arg.dim = "eoa" /\ AnalyzeEoa(NetPatterns, FailedEoaEnvs)

AbortHolders ==
    arg.dim = "holder" /\ AnalyzeHolders(NetPatterns, FailedHolderEnvs)

AbortPermissions == arg.dim = "perm" /\ AnalyzePermissions(FailedPermEnvs)

NextStall ==
    \/ SubmitStall
    \/ RespondEoa
    \/ RespondHolders
    \/ RespondPermissions
    \/ AbortEoa
    \/ AbortHolders
    \/ AbortPermissions
    \/ Aggregate

\* A step whose calls respond is taken; so is the aggregation.
SpecStall ==
    /\ InitStall
    /\ [][NextStall]_vars
    /\ WF_vars(RespondEoa)
    /\ WF_vars(RespondHolders)
    /\ WF_vars(RespondPermissions)
    /\ WF_vars(Aggregate)

\* C20: a score_token call under way eventually returns, whichever adapter
\* call does not respond: the stalled analyzer reports its degraded result
\* and the other two dimensions complete.
C20_ScoreTokenReturns ==
    (pc \in {"eoa", "holder", "perm", "agg"}) ~> (pc = "done")

(***************************************************************************)
(* The adapters on their own: one call of BlockvisionClient._request, one  *)
(* paginated fetch, one deep block scan, or the callers of one cache key.  *)
(* arg holds what the call is given and what its environment will answer,  *)
(* ret the locals of the call as it proceeds.                              *)
(***************************************************************************)
MAX_RETRIES == 3

RETRY_DELAY == 1

(***************************************************************************)
(* One iteration of the while loop of _request.  arg.outs[i] is what       *)
(* attempt i meets: "ok", "rate" (HTTP 429), "app" (a non-zero code),      *)
(* "net" (a timeout or a requests exception).  ret.attempts counts the     *)
(* requests sent, ret.sleeps lists the time.sleep arguments, ret.status is *)
(* "running", "returned" or "raised" and ret.error the type raised: "rate" *)
(* BlockvisionRateLimitError, "app" BlockvisionAPIError, "net"             *)
(* BlockvisionNetworkError.  An iteration that leaves the loop condition   *)
(* false ends with raise last_error.                                       *)
(***************************************************************************)
RequestAttempt ==
    /\ arg.fn = "request"
    /\ ret.status = "running"
    /\ LET o    == arg.outs[ret.attempts + 1]
           r    == ret.retries + 1
           more == r <= (IF arg.auto_retry THEN MAX_RETRIES ELSE 0)
       IN  ret' = IF o = "ok"
                  THEN [ret EXCEPT !.attempts = @ + 1, !.status = "returned"]
                  ELSE IF o \in {"rate", "app"}
                  THEN [ret EXCEPT !.attempts = @ + 1, !.status = "raised",
                                   !.error = o]
                  ELSE [ret EXCEPT !.attempts = @ + 1, !.retries = r,
                                   !.sleeps = IF r <= MAX_RETRIES
                                                 /\ arg.auto_retry
                                              THEN Append(@, RETRY_DELAY * r)
                                              ELSE @,
                                   !.status = IF more THEN "running"
                                              ELSE "raised",
                                   !.error = IF more THEN "none" ELSE "net"]
    /\ UNCHANGED <<pipeVars, hsIn, hsOut, arg>>

(***************************************************************************)
(* The paginated fetches get_recent_transfers (arg.fn = "recent") and      *)
(* get_transfers_in_time_range ("range").  arg.pages[n] is what the        *)
(* provider answers to request n: recs, one entry for each record with its *)
(* timestamp "in" the range, "new" (after it) or "old" (before it), and    *)
(* cursor, whether a next cursor comes with it; past the last page the     *)
(* provider answers an empty page.  A record is <<n, i, ts>>.  A cursor is *)
(* NoCursor (None), EmptyCursor ("") or the number of the page that gave   *)
(* it.  arg.cache says whether the cache is off, misses or hits.           *)
(* ret.sent lists the cursor of each request, ret.asked its limit          *)
(* parameter, ret.got the cursor of each response, ret.fetched the records *)
(* of the responses in order.                                              *)
(***************************************************************************)
MaxPages == 3

NoCursor == -1

EmptyCursor == 0

SliceAll(all, limit) == all

\* all_transfers[:limit].
Slice(all, limit) ==
    SubSeq(all, 1, IF limit >= 0 THEN Min(limit, Len(all))
                   ELSE Max(Len(all) + limit, 0))

\* if cursor: params["cursor"] = cursor.
CursorParamNone(cursor) == NoCursor

CursorParam(cursor) == IF cursor \in {NoCursor, EmptyCursor} THEN NoCursor
                       ELSE cursor

\* One evaluation of the loop condition and, when it holds, one iteration.
FetchPage ==
    /\ arg.fn \in {"recent", "range"}
    /\ ret.status = "running"
    /\ LET n     == Len(ret.sent) + 1
           page  == IF n <= MaxPages THEN arg.pages[n]
                    ELSE [recs |-> << >>, cursor |-> FALSE]
           recs  == [i \in 1..Len(page.recs) |-> <<n, i, page.recs[i]>>]
           next  == IF page.cursor THEN n ELSE EmptyCursor
           olds  == {i \in 1..Len(recs) : recs[i][3] = "old"}
           upto  == IF olds = {} THEN Len(recs)
                    ELSE (CHOOSE i \in olds : \A j \in olds : i <= j) - 1
           kept  == IF arg.fn = "recent" THEN recs
                    ELSE SelectSeq(SubSeq(recs, 1, upto),
                                   LAMBDA r : r[3] = "in")
           all   == ret.all \o kept
           asked == IF arg.fn = "recent"
                    THEN Min(Max(1, Min(100, arg.limit - Len(ret.all))), 100)
                    ELSE 100
           sent  == [ret EXCEPT !.sent = Append(@, CursorParam(ret.cursor)),
                                !.asked = Append(@, asked),
                                !.got = Append(@, next),
                                !.fetched = @ \o recs]
       IN  ret' =
             IF arg.cache = "hit" /\ n = 1
             THEN [ret EXCEPT !.status = "returned", !.result = arg.cached]
             ELSE IF ~(Len(ret.all) < arg.limit)
             THEN [ret EXCEPT !.status = "returned",
                              !.result = Slice(ret.all, arg.limit),
                              !.stored = arg.cache = "miss"]
             ELSE IF Len(recs) = 0
             THEN [sent EXCEPT !.status = "returned",
                               !.result = Slice(ret.all, arg.limit),
                               !.stored = arg.cache = "miss"]
             ELSE IF arg.fn = "range" /\ olds # {}
             THEN [sent EXCEPT !.status = "returned", !.all = all,
                               !.result = Slice(all, arg.limit)]
             ELSE IF next = EmptyCursor
             THEN [sent EXCEPT !.status = "returned", !.all = all,
                               !.cursor = next,
                               !.result = Slice(all, arg.limit),
                               !.stored = arg.cache = "miss"]
             ELSE [sent EXCEPT !.all = all, !.cursor = next]
    /\ UNCHANGED <<pipeVars, hsIn, hsOut, arg>>

(***************************************************************************)
(* The two cache stores, SimpleDB (arg.store = "db") and SimpleCache       *)
(* ("mem"), seen through one key and used by arg.callers callers.          *)
(* ret.rows is what the store holds under the key, a set of [val, at]:     *)
(* SimpleDB keeps the JSON text of the value and the time of the set,      *)
(* SimpleCache the value and the time it expires.  ret.now is the clock.   *)
(* ret.pcs[c] is caller c's place in a get and the row it read; ret.res[c] *)
(* the outcome of c's last get: val (0 for None), err (the get raised),    *)
(* at (the clock), last (the most recent set not deleted since, as the set *)
(* of its [val, at]), removed (the get left no entry).  ret.fresh says     *)
(* that an eviction removed an entry that had not expired.                 *)
(***************************************************************************)
MaxTime == 3

MaxSets == 2

\* set: the n-th set writes the value n.
CacheSetAppend ==
    /\ arg.fn = "cache"
    /\ ret.n < MaxSets
    /\ \E c \in 1..arg.callers :
          /\ ret.pcs[c].pc = "idle"
          /\ LET v   == ret.n + 1
                 row == IF arg.store = "db"
                        THEN [val |-> <<"json", v>>, at |-> ret.now]
                        ELSE [val |-> v, at |-> ret.now + arg.ttl]
             IN  ret' = [ret EXCEPT !.n = v, !.rows = @ \cup {row},
                                    !.last = {[val |-> v, at |-> ret.now]}]
    /\ UNCHANGED <<pipeVars, hsIn, hsOut, arg>>

CacheSet ==
    /\ arg.fn = "cache"
    /\ ret.n < MaxSets
    /\ \E c \in 1..arg.callers :
          /\ ret.pcs[c].pc = "idle"
          /\ LET v   == ret.n + 1
                 row == IF arg.store = "db"
                        THEN [val |-> <<"json", v>>, at |-> ret.now]
                        ELSE [val |-> v, at |-> ret.now + arg.ttl]
             IN  ret' = [ret EXCEPT !.n = v, !.rows = {row},
                                    !.last = {[val |-> v, at |-> ret.now]}]
    /\ UNCHANGED <<pipeVars, hsIn, hsOut, arg>>

\* SimpleDB.delete.
CacheDelete ==
    /\ arg.fn = "cache"
    /\ arg.store = "db"
    /\ ret.rows # {}
    /\ \E c \in 1..arg.callers :
          /\ ret.pcs[c].pc = "idle"
          /\ ret' = [ret EXCEPT !.rows = {}, !.last = {}]
    /\ UNCHANGED <<pipeVars, hsIn, hsOut, arg>>

\* One step of a get.  SimpleDB.get reads the row and closes its connection,
\* then compares the clock and deletes the key or decodes the text.
\* SimpleCache.get tests the key, reads the entry, then compares the clock
\* and returns the value or deletes the key.
CacheGet ==
    /\ arg.fn = "cache"
    /\ \E c \in 1..arg.callers :
          LET p        == ret.pcs[c]
              row      == CHOOSE r \in p.seen : TRUE
              Done(v, e, rows) ==
                  [ret EXCEPT !.pcs[c] = [pc |-> "idle", seen |-> {}],
                              !.rows = rows,
                              !.res[c] = [val |-> v, err |-> e,
                                          at |-> ret.now, last |-> ret.last,
                                          removed |-> rows = {}]]
              At(q, seen) == [ret EXCEPT !.pcs[c] = [pc |-> q, seen |-> seen]]
          IN  ret' =
                IF arg.store = "db"
                THEN IF p.pc = "idle" THEN At("selected", ret.rows)
                     ELSE IF p.seen = {} THEN Done(0, FALSE, ret.rows)
                     ELSE IF ret.now - row.at > arg.ttl
                     THEN [Done(0, FALSE, {}) EXCEPT
                             !.fresh = @ \/ \E r \in ret.rows :
                                               ~(ret.now - r.at > arg.ttl)]
                     ELSE Done(row.val[2], FALSE, ret.rows)
                ELSE IF p.pc = "idle"
                     THEN IF ret.rows = {} THEN Done(0, FALSE, ret.rows)
                          ELSE At("in", {})
                     ELSE IF p.pc = "in"
                     THEN IF ret.rows = {} THEN Done(0, TRUE, ret.rows)
                          ELSE At("read", ret.rows)
                     ELSE IF ret.now < row.at
                     THEN Done(row.val, FALSE, ret.rows)
                     ELSE IF ret.rows = {} THEN Done(0, TRUE, ret.rows)
                     ELSE [Done(0, FALSE, {}) EXCEPT
                             !.fresh = @ \/ \E r \in ret.rows : ret.now < r.at]
    /\ UNCHANGED <<pipeVars, hsIn, hsOut, arg>>

\* datetime.now() and time.time() move on.
Tick ==
    /\ arg.fn = "cache"
    /\ ret.now < MaxTime
    /\ ret' = [ret EXCEPT !.now = @ + 1]
    /\ UNCHANGED <<pipeVars, hsIn, hsOut, arg>>

(***************************************************************************)
(* The deep scans: ContractReader.get_transfer_events on its own           *)
(* (arg.fn = "events", batches of arg.batch blocks) and the outer loop of  *)
(* HolderAnalyzer.get_all_holders ("holders"), which hands each of its     *)
(* batches to get_transfer_events.  arg.outs[n] is what the RPC answers to *)
(* the n-th eth_getLogs: "ok", "range" (block range too large) or "other"  *)
(* (any other failure); later queries are answered.  ret.queried lists     *)
(* the queries as [lo, hi, out].  ret.current and ret.bend are current and *)
(* batch_end of the outer loop, ret.rcur and ret.rto current_block and     *)
(* to_block of the reader.                                                 *)
(* get_transfer_events catches every exception of get_logs and returns,    *)
(* so the except branch of get_all_holders (holder_analysis.py:248-273)    *)
(* is never entered and get_all_holders always takes current =             *)
(* batch_end + 1.                                                          *)
(***************************************************************************)
MaxQueries == 3

BATCH_SIZE == 1000

\* One test of the reader's loop condition and, when it holds, one batch.
GetTransferEventsBatchStay ==
    /\ arg.fn \in {"events", "holders"}
    /\ ret.pc = "reader"
    /\ LET n    == Len(ret.queried) + 1
           bend == Min(ret.rcur + arg.batch - 1, ret.rto)
           out  == IF n <= MaxQueries THEN arg.outs[n] ELSE "ok"
       IN  ret' = IF ret.rcur <= ret.rto
                  THEN [ret EXCEPT !.queried = Append(@, [lo |-> ret.rcur,
                                                          hi |-> bend,
                                                          out |-> out]),
                                   !.rcur = bend]
                  ELSE IF arg.fn = "events" THEN [ret EXCEPT !.pc = "done"]
                  ELSE [ret EXCEPT !.pc = "outer", !.current = ret.bend + 1]
    /\ UNCHANGED <<pipeVars, hsIn, hsOut, arg>>

GetTransferEventsBatch ==
    /\ arg.fn \in {"events", "holders"}
    /\ ret.pc = "reader"
    /\ LET n    == Len(ret.queried) + 1
           bend == Min(ret.rcur + arg.batch - 1, ret.rto)
           out  == IF n <= MaxQueries THEN arg.outs[n] ELSE "ok"
       IN  ret' = IF ret.rcur <= ret.rto
                  THEN [ret EXCEPT !.queried = Append(@, [lo |-> ret.rcur,
                                                          hi |-> bend,
                                                          out |-> out]),
                                   !.rcur = bend + 1]
                  ELSE IF arg.fn = "events" THEN [ret EXCEPT !.pc = "done"]
                  ELSE [ret EXCEPT !.pc = "outer", !.current = ret.bend + 1]
    /\ UNCHANGED <<pipeVars, hsIn, hsOut, arg>>

\* One test of the outer loop condition and, when it holds, the call of
\* get_transfer_events(current, batch_end).
GetAllHoldersBatch ==
    /\ arg.fn = "holders"
    /\ ret.pc = "outer"
    /\ LET bend == Min(ret.current + BATCH_SIZE, arg.to)
       IN  ret' = IF ret.current <= arg.to
                  THEN [ret EXCEPT !.pc = "reader", !.bend = bend,
                                   !.rcur = ret.current, !.rto = bend]
                  ELSE [ret EXCEPT !.pc = "done"]
    /\ UNCHANGED <<pipeVars, hsIn, hsOut, arg>>

(***************************************************************************)
(* check_owner called MaxOwnerCalls times for one contract, all within the *)
(* TTL (arg.fn = "owner").  arg.spell[n] is the spelling of the address in *)
(* call n, arg.envs[n] which reads of call n succeed.  ret.ocache maps a   *)
(* key to its entry, ret.infos lists the results, ret.reads counts the     *)
(* calls that went to the chain.                                           *)
(***************************************************************************)
MaxOwnerCalls == 2

CheckOwnerCall ==
    /\ arg.fn = "owner"
    /\ ret.n < MaxOwnerCalls
    /\ LET k   == ret.n + 1
           \* Web3.to_checksum_address(contract_address).lower()
           key == IF arg.spell[k] \in {"lower", "upper", "checksum"}
                  THEN "lower" ELSE arg.spell[k]
           o   == CheckOwner(arg.chain, ret.ocache[key], arg.envs[k])
       IN  ret' = [ret EXCEPT !.n = k, !.ocache[key] = o.ocache,
                              !.infos = Append(@, o.info),
                              !.reads = IF ret.ocache[key].has THEN @
                                        ELSE @ + 1]
    /\ UNCHANGED <<pipeVars, hsIn, hsOut, arg>>

InitAdapters ==
    /\ InitPipe({CHOOSE w \in Worlds : w.events = << >>}, {FALSE})
    /\ hsIn = 0
    /\ hsOut = NoHs
    /\ LET Rep(k)  == [i \in 1..k |-> "in"]
           Recent  == {Rep(0), Rep(1), Rep(50), Rep(100)}
           Ranged  == { << >>, << "in" >>, << "in", "in" >>, << "new", "in" >>,
                        << "in", "old" >>, << "old", "in" >> }
           Cached  == {[i \in 1..k |-> <<0, i, "in">>] : k \in {0, 1}}
       IN  arg \in [fn : {"request"},
                    outs : [1..(MAX_RETRIES + 1)
                              -> {"ok", "rate", "app", "net"}],
                    auto_retry : BOOLEAN]
                  \cup
                   {a \in [fn : {"recent"}, limit : {-1, 0, 1, 2, 150},
                           pages : [1..MaxPages
                                      -> [recs : Recent, cursor : BOOLEAN]],
                           cache : {"off", "miss", "hit"}, cached : Cached] :
                        /\ Len(a.cached) <= Max(a.limit, 0)
                        /\ a.cache # "hit" => Len(a.cached) = 0}
                  \cup
                   [fn : {"range"}, limit : {0, 1, 3},
                    pages : [1..MaxPages -> [recs : Ranged, cursor : BOOLEAN]],
                    cache : {"off"}, cached : {<< >>}]
                  \cup
                   [fn : {"cache"}, store : {"db", "mem"}, ttl : {0, 1},
                    callers : {1, 2}]
                  \cup
                   {a \in [fn : {"events", "holders"}, from : {0, 7},
                           to : {0, 1, 2, 5, 7, 8, 9, 12, 999, 1000, 1001,
                                 1006, 1007, 1008, 2500, 2507},
                           batch : {1, 2, 1000},
                           outs : [1..MaxQueries -> {"ok", "range", "other"}]] :
                        /\ a.from <= a.to
                        /\ a.fn = "holders" => a.batch = 1000
                        /\ a.batch < 1000 => a.to - a.from <= 5}
                  \cup
                   [fn : {"owner"}, chain : Worlds,
                    spell : [1..MaxOwnerCalls -> {"lower", "upper", "checksum"}],
                    envs : [1..MaxOwnerCalls
                              -> [ownerOk : BOOLEAN, ownerCodeOk : BOOLEAN,
                                  codeOk : {TRUE}, storage : {"ok"}]]]
    /\ ret = IF arg.fn = "request"
             THEN [retries |-> 0, attempts |-> 0, sleeps |-> << >>,
                   status |-> "running", error |-> "none"]
             ELSE IF arg.fn \in {"recent", "range"}
             THEN [all |-> << >>, cursor |-> NoCursor, sent |-> << >>,
                   asked |-> << >>, got |-> << >>, fetched |-> << >>,
                   status |-> "running", result |-> << >>, stored |-> FALSE]
             ELSE IF arg.fn = "cache"
             THEN [now |-> 0, rows |-> {}, n |-> 0, last |-> {},
                   pcs |-> [c \in 1..2 |-> [pc |-> "idle", seen |-> {}]],
                   res |-> [c \in 1..2 |-> [val |-> 0, err |-> FALSE,
                                            at |-> 0, last |-> {},
                                            removed |-> TRUE]],
                   fresh |-> FALSE]
             ELSE IF arg.fn \in {"events", "holders"}
             THEN [pc |-> IF arg.fn = "events" THEN "reader" ELSE "outer",
                   current |-> arg.from, bend |-> arg.from,
                   rcur |-> arg.from, rto |-> arg.to, queried |-> << >>]
             ELSE IF arg.fn = "owner"
             THEN [n |-> 0,
                   ocache |-> [k \in {"lower", "upper", "checksum"}
                                 |-> NoOwnerCached],
                   infos |-> << >>, reads |-> 0]
             ELSE NoRet

NextAdapters ==
    \/ RequestAttempt
    \/ FetchPage
    \/ CacheSet
    \/ CacheGet
    \/ CacheDelete
    \/ Tick
    \/ GetTransferEventsBatch
    \/ GetAllHoldersBatch
    \/ CheckOwnerCall

\* A call whose environment answers keeps running.
SpecAdapters == InitAdapters /\ [][NextAdapters]_vars /\ WF_vars(NextAdapters)

\* C21: network failure, rate limit and application error reach the caller
\* as three different error types; with retries on, a network failure and a
\* rate limit are each followed by a further attempt while attempts remain;
\* an application error ends the request at once; a rate limit at the last
\* attempt is raised as a rate-limit error.
C21_ThreeSignalsRetried ==
    arg.fn = "request" /\ ret.status # "running" =>
        LET last == arg.outs[ret.attempts]
        IN  /\ ret.status = "returned" <=> last = "ok"
            /\ ret.status = "raised" => ret.error = last
            /\ arg.auto_retry =>
                  \A i \in 1..ret.attempts :
                      arg.outs[i] \in {"rate", "net"} /\ i <= MAX_RETRIES
                          => ret.attempts > i

\* C22: with retries on, a request makes at most MAX_RETRIES + 1 attempts;
\* when every attempt meets a retryable failure (network, rate limit) it
\* makes exactly 4, sleeps RETRY_DELAY * k after the k-th (k = 1, 2, 3) and
\* not after the last, and raises the last error; with retries off it makes
\* one attempt.
C22_RetrySchedule ==
    arg.fn = "request" /\ ret.status # "running" =>
        /\ ret.attempts <= MAX_RETRIES + 1
        /\ ~arg.auto_retry => ret.attempts = 1 /\ ret.sleeps = << >>
        /\ arg.auto_retry
              /\ (\A i \in DOMAIN arg.outs : arg.outs[i] \in {"rate", "net"})
              => /\ ret.attempts = MAX_RETRIES + 1
                 /\ ret.sleeps = << RETRY_DELAY, RETRY_DELAY * 2,
                                    RETRY_DELAY * 3 >>
                 /\ ret.status = "raised"
                 /\ ret.error = arg.outs[MAX_RETRIES + 1]
\* C23: get_recent_transfers issues no further page request once a page came
\* back empty, or without a next cursor, or the accumulated count reached the
\* limit; it sends at most limit requests (none when limit <= 0), and what it
\* returns is at most limit records, a prefix of the fetched pages in fetch
\* order; and it returns.
C23_RecentTransfersBounded ==
    /\ [](arg.fn = "recent" =>
            /\ Len(ret.sent) <= Max(arg.limit, 0)
            /\ \A n \in 2..Len(ret.sent) :
                  /\ \E i \in 1..Len(ret.fetched) : ret.fetched[i][1] = n - 1
                  /\ ret.got[n - 1] # EmptyCursor
                  /\ Cardinality({i \in 1..Len(ret.fetched) :
                                     ret.fetched[i][1] <= n - 1}) < arg.limit
            /\ ret.status = "returned" =>
                  /\ Len(ret.result) <= Max(arg.limit, 0)
                  /\ arg.cache # "hit" =>
                        /\ Len(ret.result) <= Len(ret.fetched)
                        /\ ret.result = SubSeq(ret.fetched, 1, Len(ret.result)))
    /\ <>(arg.fn = "recent" => ret.status = "returned")

C23_Witness ==
    /\ arg.fn = "recent" /\ ret.status = "returned"
    /\ arg.limit = 150 /\ Len(ret.sent) = 2
    /\ Len(ret.fetched) = 200 /\ Len(ret.result) = 150

\* C24: within one paginated fetch every request is answered before the next
\* is sent, the first request carries no cursor, and request n + 1 carries
\* exactly the cursor that response n returned.
C24_CursorsInOrder ==
    arg.fn \in {"recent", "range"} =>
        /\ Len(ret.sent) = Len(ret.got)
        /\ Len(ret.sent) >= 1 => ret.sent[1] = NoCursor
        /\ \A n \in 1..(Len(ret.sent) - 1) :
              /\ ret.got[n] # EmptyCursor
              /\ ret.sent[n + 1] = ret.got[n]

C24_Witness ==
    /\ arg.fn = "range" /\ ret.status = "returned"
    /\ ret.sent = <<NoCursor, 1, 2>>

(***************************************************************************)
(* The cache slots.                                                        *)
(***************************************************************************)
\* C25: a cache key holds every parameter the result depends on, the scanned
\* block range among them, so the holders a deep analysis of the second call
\* reports for its block range are those a scan of that range finds, never
\* the entry another range left in the slot.
C25_HoldersKeyedByRange ==
    /\ calls = 2
    /\ AfterHolders
    /\ holderOut.range # NoRange
    /\ ~holderOut.raised
    => holdersCache.dict
          = GetAllHolders(chain, NoHolders, TRUE, holderOut.range[1],
                          holderOut.range[2], AllOkHolderEnv).dict

\* C26: with one caller, in both stores and after any sequence of set, get
\* and delete, a get returns the value of the most recent set while that is
\* within its TTL; once it has expired the get returns nothing and leaves no
\* entry; a value returned is never older than the TTL; the key never has
\* more than one entry; with a TTL of 0 a value set earlier is gone.
C26_CacheGetWithinTtl ==
    arg.fn = "cache" /\ arg.callers = 1 =>
        LET g == ret.res[1]
        IN  /\ Cardinality(ret.rows) <= 1
            /\ ~g.err
            /\ g.val # 0 => \E l \in g.last : /\ g.val = l.val
                                               /\ g.at - l.at <= arg.ttl
            /\ \A l \in g.last :
                  /\ g.at - l.at < arg.ttl => g.val = l.val
                  /\ g.at - l.at > arg.ttl => g.val = 0 /\ g.removed

C26_Witness ==
    /\ arg.fn = "cache" /\ arg.callers = 1 /\ arg.store = "db" /\ arg.ttl = 1
    /\ ret.n = 2
    /\ ret.res[1].last = {[val |-> 2, at |-> 1]}
    /\ ret.res[1].at = 3
    /\ ret.res[1].val = 0 /\ ret.res[1].removed

\* C27: with two callers on one key, under every interleaving of their gets,
\* sets and evictions, the key never has more than one entry, no get fails,
\* a value returned was written by an earlier set, and no eviction removes
\* an entry that has not expired.
C27_CacheSafeUnderInterleaving ==
    arg.fn = "cache" /\ arg.callers = 2 =>
        /\ Cardinality(ret.rows) <= 1
        /\ ~ret.fresh
        /\ \A c \in 1..2 : /\ ~ret.res[c].err
                            /\ ret.res[c].val \in 0..ret.n

(***************************************************************************)
(* The deep scans.                                                         *)
(***************************************************************************)
\* C28: in a finished deep holder scan every batch the RPC rejected for its
\* block range is followed by one retry of the first half of that batch.
C28_RejectedBatchHalved ==
    arg.fn = "holders" /\ ret.pc = "done" =>
        \A i \in 1..Len(ret.queried) :
            ret.queried[i].out = "range" /\ ret.queried[i].hi > ret.queried[i].lo
            => /\ i < Len(ret.queried)
               /\ ret.queried[i + 1].lo = ret.queried[i].lo
               /\ ret.queried[i + 1].hi
                     = ret.queried[i].lo
                         + (ret.queried[i].hi - ret.queried[i].lo) \div 2

\* C29: for 0 <= from <= to and a batch size of at least 1 both scan loops
\* end, the position of each grows with every iteration, whatever the RPC
\* answered, and when no batch failed the batches queried cover from..to in
\* order, each block once and none outside.
C29_ScanAdvancesAndPartitions ==
    /\ [](arg.fn \in {"events", "holders"} /\ ret.pc = "done"
             /\ (\A i \in 1..Len(ret.queried) : ret.queried[i].out = "ok")
          => /\ Len(ret.queried) >= 1
             /\ ret.queried[1].lo = arg.from
             /\ ret.queried[Len(ret.queried)].hi = arg.to
             /\ \A i \in 1..Len(ret.queried) :
                   /\ ret.queried[i].lo <= ret.queried[i].hi
                   /\ i < Len(ret.queried)
                        => ret.queried[i + 1].lo = ret.queried[i].hi + 1)
    /\ [][arg.fn \in {"events", "holders"} =>
            /\ Len(ret'.queried) > Len(ret.queried) => ret'.rcur > ret.rcur
            /\ ret.pc = "reader" /\ ret'.pc = "outer"
                  => ret'.current > ret.current]_vars
    /\ <>(arg.fn \in {"events", "holders"} => ret.pc = "done")

C29_Witness ==
    /\ arg.fn = "holders" /\ ret.pc = "done"
    /\ arg.from = 7 /\ arg.to = 2507
    /\ Len(ret.queried) = 5
    /\ \A i \in 1..5 : ret.queried[i].out = "ok"
    /\ ret.queried[2] = [lo |-> 1007, hi |-> 1007, out |-> "ok"]

(***************************************************************************)
(* check_owner and its cache.                                              *)
(***************************************************************************)
\* C30: check_owner stores its result under the lowercased address in every
\* outcome, a failed owner() call too, and every later check_owner within
\* the TTL returns the stored result without a read of the chain; so after
\* one failed owner() read every later result has has_owner = False and the
\* 20 owner points, whatever the chain would answer.
C30_FailedOwnerReadCached ==
    arg.fn = "owner" /\ ret.n >= 1 =>
        /\ ret.reads = 1
        /\ ret.ocache["lower"] = [has |-> TRUE, info |-> ret.infos[1]]
        /\ \A k \in 1..ret.n : ret.infos[k] = ret.infos[1]
        /\ ~arg.envs[1].ownerOk =>
              \A k \in 1..ret.n : /\ ~ret.infos[k].has_owner
                                  /\ OwnerPoints(ret.infos[k]) = 20

C30_Witness ==
    /\ arg.fn = "owner" /\ ret.n = 2
    /\ arg.chain.owner = "a"
    /\ ~arg.envs[1].ownerOk
    /\ arg.envs[2].ownerOk /\ arg.envs[2].ownerCodeOk
    /\ arg.spell = <<"checksum", "upper">>
    /\ ~ret.infos[2].has_owner
    /\ ReadOwner(arg.chain, arg.envs[2]).has_owner

=============================================================================
